---- MODULE Spec2Model ----
(***************************************************************************)
(* Model of the ITPortal MCP server's snapshot cache                       *)
(* (internal/cache/snapshot.go), of the paginated client it is built on    *)
(* (internal/itportal: listPage, listAll) and of the process start-up in   *)
(* cmd/server/main.go, and of the texts the MCP handlers answer with       *)
(* (internal/mcp: tools and resources) as far as the fields of an account  *)
(* reach them; of the requests the client sends and what it makes of the   *)
(* answers (Client.do, listPage, getOne, createOne, the updates and the    *)
(* upload); and of the bearer check in front of the MCP handler            *)
(* (apiKeyMiddleware).                                                     *)
(*                                                                         *)
(* A remote collection is abstracted to [ver, n]: n records, all of them   *)
(* of revision ver.  A slice of records is a sequence of chunks            *)
(* [ver, off, len]: the len records of revision ver found at offsets       *)
(* off .. off+len-1.  Slices are kept in the order the code appends them.  *)
(***************************************************************************)
EXTENDS Integers, Sequences, FiniteSets, TLC

\* ---------------------------------------------------------------- bounds
\* Largest declared total of the synthetic service of the pagination spec.
MaxTotal == 230
\* Largest item budget handed to listAll in the pagination spec.
MaxBudget == 220

\* Entity kinds fetched by a build (the source has twelve tasks of one
\* shape; the model runs NumKinds of them).
NumKinds == 2
\* Concurrent callers of the refresh_snapshot tool.
NumRefreshers == 2
\* Builds started over a run, the initial one included.
MaxBuilds == 3
\* Events of the environment over a run: writes to the remote service,
\* failed page requests, elapsed build deadlines, the shutdown signal.
MaxEvents == 1
\* Remote collections hold 0, SizeStep or 2*SizeStep records.
SizeStep == 120
\* The configured SNAPSHOT_LIMIT_PER_ENTITY.
SnapshotLimit == 150
\* The requests one server is sent in the bearer-check specification.
MaxRequests == 2

\* Pagination against a service that answers anything: the largest item
\* budget, the longest page and the largest total the service declares.
MaxAnyBudget == 3
MaxAnyPage == 2
MaxAnyTotal == 4

\* ------------------------------------------------------------- constants
\* const pageSize = 100 in listAll.
pageSize == 100
\* net/http's status codes.
StatusOK == 200
StatusUnauthorized == 401
StatusForbidden == 403

Min(a, b) == IF a < b THEN a ELSE b
Max(a, b) == IF a > b THEN a ELSE b
CeilDiv(a, b) == (a + b - 1) \div b

\* ------------------------------------------------------------ the client
\* Number of records held by a slice ( len(all) ).
RECURSIVE Count(_)
Count(s) == IF s = <<>> THEN 0 ELSE Head(s).len + Count(Tail(s))

\* append(all, items...): appending an empty page leaves the slice as it is.
AppendItems(all, items) == IF items.len = 0 THEN all ELSE Append(all, items)

\* listPage against a collection coll = [ver, n]: the service returns the
\* records at offsets offset .. offset+limit-1 that exist, and declares the
\* size of the collection as total.
listPage(coll, limit, offset) ==
    [items |-> [ver |-> coll.ver, off |-> offset,
                len |-> IF offset >= coll.n THEN 0
                        ELSE Min(limit, coll.n - offset)],
     total |-> coll.n]

\* No page has been requested yet.
NoPage == [n |-> 0, total |-> 0]

\* The state of one listAll call before its first iteration.
listAllStart == [offset |-> 0, all |-> <<>>, requests |-> 0, done |-> FALSE]

\* The loop's exit test without its test for an empty page.
listAllBreakNoEmpty(offset, total, maxItems, n) ==
    offset >= total \/ offset >= maxItems

\* The loop's exit test with >= total mistaken for > total.
listAllBreakStrict(offset, total, maxItems, n) ==
    offset > total \/ offset >= maxItems \/ n = 0

\* if offset >= total || offset >= maxItems || len(items) == 0 { break }
listAllBreak(offset, total, maxItems, n) ==
    offset >= total \/ offset >= maxItems \/ n = 0

\* The body of listAll's loop once listPage has returned page without error.
listAllStep(st, page, maxItems) ==
    LET off == st.offset + page.items.len
    IN  [offset   |-> off,
         all      |-> AppendItems(st.all, page.items),
         requests |-> st.requests + 1,
         done     |-> listAllBreak(off, page.total, maxItems, page.items.len)]

\* One iteration of listAll's loop whose page request succeeded against coll.
listAllIter(st, coll, maxItems) ==
    listAllStep(st, listPage(coll, pageSize, st.offset), maxItems)


\* ------------------------------------------------------------- the cache
Kinds == 1..NumKinds
\* Builders: New's initial build, the background loop, the Refresh callers.
InitB == 0
BgB == 1
Refreshers == 2..(NumRefreshers + 1)
Builders == {InitB, BgB} \union Refreshers
Sizes == {0, SizeStep, 2 * SizeStep}

NULL == 0
NoErr == [kind |-> 0, cause |-> "nil"]
\* fmt.Errorf("list <kind>: %w", err)
ListErr(k, cause) == [kind |-> k, cause |-> cause]

\* c.limitPerEntity, set once by New from cfg.SnapshotLimitPerEntity.
limitPerEntity == SnapshotLimit

\* buildMarkdown: the generation stamp, the summary line of per-kind counts
\* and one section per kind rendering the kind's records in order.
buildMarkdown(GeneratedAt, data) ==
    [generated |-> GeneratedAt,
     summary   |-> [k \in Kinds |-> Count(data[k])],
     sections  |-> [k \in Kinds |-> data[k]]]

\* A snapshot whose text is stamped with a second reading of the clock, taken
\* while it is rendered.
SnapshotStampedAtRender(GeneratedAt, data) ==
    [GeneratedAt |-> GeneratedAt, data |-> data,
     Markdown |-> buildMarkdown(GeneratedAt + 1, data)]

\* snap := &Snapshot{GeneratedAt: time.Now().UTC(), ...}; snap.Markdown = ...
Snapshot(GeneratedAt, data) ==
    [GeneratedAt |-> GeneratedAt, data |-> data,
     Markdown |-> buildMarkdown(GeneratedAt, data)]

\* A fetch task before its first page request; err is the error the task's
\* function returns.
taskStart == [status |-> "run", st |-> listAllStart, err |-> NoErr]
\* The result variable a task leaves behind: its slice, or nil on error.
TaskResult(t) == IF t.status = "ok" THEN t.st.all ELSE <<>>

Last(s) == s[Len(s)]
Range(s) == {s[i] : i \in 1..Len(s)}

\* listAll run to its end against a collection that does not change.
RECURSIVE listAllRun(_, _, _)
listAllRun(st, coll, maxItems) ==
    IF st.done THEN st ELSE listAllRun(listAllIter(st, coll, maxItems), coll, maxItems)

\* ------------------------------------------------------------------ text
\* A string is a sequence of one-character strings; a rendered text is a
\* sequence of lines (what strings.Split(text, "\n") returns), and a line is
\* a sequence of tokens: the characters of a field's value, or a piece of
\* the format string as a single token.
Digits == <<"0", "1", "2", "3", "4", "5", "6", "7", "8", "9">>

\* %d of a non-negative int.
RECURSIVE Itoa(_)
Itoa(n) == IF n < 10 THEN <<Digits[n + 1]>>
           ELSE Itoa(n \div 10) \o <<Digits[(n % 10) + 1]>>

\* strings.Contains(s, sub)
Contains(s, sub) ==
    \E i \in 1..(Len(s) - Len(sub) + 1) : SubSeq(s, i, i + Len(sub) - 1) = sub

\* strings.ReplaceAll(s, old, new), old not empty: the scan from left to
\* right.  Its state is <<skip, out>>: the runes of a match still to be
\* passed over, and the text written so far.  At i it passes over a rune of
\* the last match, or writes new for a match that begins at i, or copies
\* the rune.
replaceStep(s, old, new, st, i) ==
    IF st[1] > 0 THEN <<st[1] - 1, st[2]>>
    ELSE IF i + Len(old) - 1 <= Len(s) /\ SubSeq(s, i, i + Len(old) - 1) = old
    THEN <<Len(old) - 1, st[2] \o new>>
    ELSE <<0, Append(st[2], s[i])>>

\* The scan over the positions lo..hi, run through in two halves with the
\* state carried from the first to the second; positions that all lie
\* inside the last match are passed over at once.
RECURSIVE replaceLoop(_, _, _, _, _, _)
replaceLoop(s, old, new, lo, hi, st) ==
    IF lo > hi THEN st
    ELSE IF st[1] > hi - lo THEN <<st[1] - (hi - lo + 1), st[2]>>
    ELSE IF lo = hi THEN replaceStep(s, old, new, st, lo)
    ELSE LET mid == (lo + hi) \div 2
         IN  replaceLoop(s, old, new, mid + 1, hi,
                         replaceLoop(s, old, new, lo, mid, st))

ReplaceAll(s, old, new) == replaceLoop(s, old, new, 1, Len(s), <<0, <<>>>>)[2]

\* A loop body that takes '>' for the end of a tag only inside a tag, and
\* keeps it as text elsewhere.
stripStepKeepsLoneClose(st, r) ==
    IF r = "<" THEN <<TRUE, st[2]>>
    ELSE IF r = ">" /\ st[1] THEN <<FALSE, st[2]>>
    ELSE IF st[1] THEN st
    ELSE <<FALSE, Append(st[2], r)>>

\* The body of truncate's loop over the runes, on the state <<inTag, sb>>:
\* '<' opens a tag, '>' closes it, and a rune outside a tag is written.
stripStep(st, r) ==
    IF r = "<" THEN <<TRUE, st[2]>>
    ELSE IF r = ">" THEN <<FALSE, st[2]>>
    ELSE IF st[1] THEN st
    ELSE <<FALSE, Append(st[2], r)>>

\* for _, r := range s: the runes in order, run through in two halves with
\* the state carried from the first to the second; runes inside a tag that
\* none of them closes are passed over at once.
RECURSIVE stripLoop(_, _)
stripLoop(s, st) ==
    IF s = <<>> THEN st
    ELSE IF st[1] /\ \A i \in 1..Len(s) : s[i] # ">" THEN st
    ELSE IF Len(s) = 1 THEN stripStep(st, s[1])
    ELSE LET mid == Len(s) \div 2
         IN  stripLoop(SubSeq(s, mid + 1, Len(s)), stripLoop(SubSeq(s, 1, mid), st))

\* truncate's loop over the runes: only the runes outside a tag are kept.
StripTags(s, inTag) == stripLoop(s, <<inTag, <<>>>>)[2]

WhiteSpace == {" ", "\n", "\t", "\r"}

\* strings.Join(strings.Fields(s), " "), rune by rune on the state
\* <<gap, out>>: gap is "start" before the first field, "word" inside a
\* field, "space" after one; a field that follows another is written after
\* one space.
fieldsStep(st, r) ==
    IF r \in WhiteSpace
    THEN <<IF st[1] = "start" THEN "start" ELSE "space", st[2]>>
    ELSE <<"word", (IF st[1] = "space" THEN Append(st[2], " ") ELSE st[2]) \o <<r>>>>

\* The runes in order, run through in two halves with the state carried
\* from the first to the second; white space that follows white space or
\* the start is passed over at once.
RECURSIVE fieldsLoop(_, _)
fieldsLoop(s, st) ==
    IF s = <<>> THEN st
    ELSE IF st[1] # "word" /\ \A i \in 1..Len(s) : s[i] \in WhiteSpace THEN st
    ELSE IF Len(s) = 1 THEN fieldsStep(st, s[1])
    ELSE LET mid == Len(s) \div 2
         IN  fieldsLoop(SubSeq(s, mid + 1, Len(s)), fieldsLoop(SubSeq(s, 1, mid), st))

JoinFields(s, gap) == fieldsLoop(s, <<gap, <<>>>>)[2]

\* utf8.RuneLen of the runes of the model's texts: "e'" stands for a rune
\* of two bytes (U+00E9), "..." for the ellipsis U+2026 of three bytes.
RuneLen(r) ==
    CASE r = "e'" -> 2
      [] r = "..." -> 3
      [] OTHER -> 1

\* len(s) of a string: its bytes.
ByteLen(s) ==
    Len(s) + Cardinality({i \in 1..Len(s) : s[i] = "e'"})
           + 2 * Cardinality({i \in 1..Len(s) : s[i] = "..."})

\* What decoding yields for the bytes of a rune that was cut in the middle.
PartialRune == "\\x"

\* s[:n] of a string by bytes, n < len(s): the runes that fit whole, and a
\* partial rune when the cut falls inside one.
CutBytes(s, n) ==
    LET fit == {k \in 0..Len(s) : ByteLen(SubSeq(s, 1, k)) <= n}
        k == CHOOSE i \in fit : \A j \in fit : j <= i
    IN  SubSeq(s, 1, k) \o
        (IF k < Len(s) /\ ByteLen(SubSeq(s, 1, k)) < n THEN <<PartialRune>> ELSE <<>>)

\* A truncate that measures and cuts the cleaned text by bytes.
truncateCutsBytes(s, max) ==
    LET s1 == ReplaceAll(s, <<"<", "b", "r", ">">>, <<" ">>)
        s2 == ReplaceAll(s1, <<"<", "b", "r", "/", ">">>, <<" ">>)
        s3 == ReplaceAll(s2, <<"<", "b", "r", " ", "/", ">">>, <<" ">>)
        s4 == ReplaceAll(s3, <<"<", "/", "p", ">">>, <<" ">>)
        s5 == ReplaceAll(s4, <<"<", "/", "d", "i", "v", ">">>, <<" ">>)
        clean == JoinFields(StripTags(s5, FALSE), "start")
    IN  IF ByteLen(clean) <= max THEN clean
        ELSE CutBytes(clean, max) \o <<"...">>

\* truncate(s, max): line breaks of HTML become spaces, tags are stripped,
\* white space is normalised, and the text is cut to max runes followed by
\* an ellipsis (the single rune U+2026, written "..." here).
truncate(s, max) ==
    LET s1 == ReplaceAll(s, <<"<", "b", "r", ">">>, <<" ">>)
        s2 == ReplaceAll(s1, <<"<", "b", "r", "/", ">">>, <<" ">>)
        s3 == ReplaceAll(s2, <<"<", "b", "r", " ", "/", ">">>, <<" ">>)
        s4 == ReplaceAll(s3, <<"<", "/", "p", ">">>, <<" ">>)
        s5 == ReplaceAll(s4, <<"<", "/", "d", "i", "v", ">">>, <<" ">>)
        clean == JoinFields(StripTags(s5, FALSE), "start")
    IN  IF Len(clean) <= max THEN clean
        ELSE SubSeq(clean, 1, max) \o <<"...">>

\* ---------------------------------------------------------------- accounts
\* itportal.Account.  A pointer field is a sequence holding the struct it
\* points to, empty when nil.
Account(Company, Username, Password, TwoFACode, Description) ==
    [ID |-> 5, Company |-> Company, Type |-> <<[ID |-> 2, Name |-> <<"t">>]>>,
     Username |-> Username, Password |-> Password, TwoFACode |-> TwoFACode,
     AccountNumber |-> <<"n">>, Expires |-> <<>>, Description |-> Description,
     Email |-> <<"e">>, Representative |-> <<>>, AccountURL |-> <<>>,
     TechTelephone |-> <<>>, SalesTelephone |-> <<>>, ReviewBy |-> <<>>,
     DueDate |-> <<>>, Notes |-> <<"<", "i", ">", "o">>, Modified |-> <<"m">>,
     URL |-> <<"l">>]

\* if v != "" { fmt.Fprintf(&b, label+"%s\n", v) }
FieldLine(label, v) == IF v # <<>> THEN <<<<label>> \o v>> ELSE <<>>

\* The body of buildMarkdown's loop over s.Accounts: the lines of one
\* account, the blank line after it included.
accountLines(ac) ==
    LET companyCtx == IF ac.Company # <<>> THEN <<" -- ">> \o ac.Company[1].Name
                      ELSE <<>>
        typeName == IF ac.Type # <<>> THEN <<" [">> \o ac.Type[1].Name \o <<"]">>
                    ELSE <<>>
    IN  <<<<"### ", "Account ID: ">> \o Itoa(ac.ID) \o typeName \o companyCtx>>
        \o (IF ac.Company # <<>>
            THEN <<<<"- **Company**: ">> \o ac.Company[1].Name \o <<" (ID: ">>
                   \o Itoa(ac.Company[1].ID) \o <<")">>>>
            ELSE <<>>)
        \o (IF ac.Type # <<>> THEN <<<<"- **Type**: ">> \o ac.Type[1].Name>>
            ELSE <<>>)
        \o FieldLine("- **Username**: ", ac.Username)
        \o FieldLine("- **Account Number**: ", ac.AccountNumber)
        \o FieldLine("- **Email**: ", ac.Email)
        \o FieldLine("- **Representative**: ", ac.Representative)
        \o FieldLine("- **Tech Support**: ", ac.TechTelephone)
        \o FieldLine("- **Sales**: ", ac.SalesTelephone)
        \o FieldLine("- **Account URL**: ", ac.AccountURL)
        \o FieldLine("- **Expires**: ", ac.Expires)
        \o (IF ac.Description # <<>>
            THEN <<<<"- **Description**: ">> \o truncate(ac.Description, 300)>>
            ELSE <<>>)
        \o (IF ac.Notes # <<>>
            THEN <<<<"- **Notes**: ">> \o truncate(ac.Notes, 300)>>
            ELSE <<>>)
        \o FieldLine("- **Portal Link**: ", ac.URL)
        \o <<<<>>>>

RECURSIVE accountsLines(_)
accountsLines(accounts) ==
    IF accounts = <<>> THEN <<>>
    ELSE accountLines(Head(accounts)) \o accountsLines(Tail(accounts))

\* A rendering that lists the passwords of the accounts after the section.
accountsMarkdownWithPasswords(accounts) ==
    << <<"# ITPortal Documentation Snapshot">>, <<>>,
       <<"## ", "Accounts", " (">> \o Itoa(Len(accounts)) \o <<")">>, <<>> >>
    \o accountsLines(accounts)
    \o [i \in 1..Len(accounts) |-> <<"- **Password**: ">> \o accounts[i].Password]
    \o << <<>> >>

\* buildMarkdown for a snapshot holding accounts only: the title, the
\* summary line with the account count, the rule, the Companies heading
\* that is always written and the Accounts section, written when there is
\* an account.  The text ends with a newline, hence the last empty line.
accountsMarkdown(accounts) ==
    << <<"# ITPortal Documentation Snapshot">>, <<>>,
       <<"**Summary:** ">> \o Itoa(Len(accounts)) \o <<" accounts">>, <<>>,
       <<"---">>, <<>>,
       <<"## ", "Companies", " (", "0", ")">>, <<>> >>
    \o (IF Len(accounts) > 0
        THEN << <<"## ", "Accounts", " (">> \o Itoa(Len(accounts)) \o <<")">>,
                <<>> >>
             \o accountsLines(accounts)
        ELSE <<>>)
    \o << <<>> >>

\* encoding/json's string escaping of the characters it does not copy.
JsonEscape(c) ==
    CASE c = "<" -> "\\u003c"
      [] c = ">" -> "\\u003e"
      [] c = "&" -> "\\u0026"
      [] c = "\"" -> "\\\""
      [] c = "\n" -> "\\n"
      [] OTHER -> c

JsonString(v) == <<"\"">> \o [i \in 1..Len(v) |-> JsonEscape(v[i])] \o <<"\"">>

\* A string field tagged omitempty.
JsonField(key, v) == IF v # <<>> THEN <<<<key>> \o JsonString(v)>> ELSE <<>>

\* A pointer field tagged omitempty, to a struct of ID and Name.
JsonRef(key, ref) ==
    IF ref # <<>>
    THEN << <<key, "{">>,
            <<"\"id\": ">> \o Itoa(ref[1].ID),
            <<"\"name\": ">> \o JsonString(ref[1].Name),
            <<"}">> >>
    ELSE <<>>

\* json.MarshalIndent of an Account: every field of the struct that is not
\* empty, under its json tag, in the order of the struct.
marshalAccount(ac) ==
    << <<"{">> >>
    \o (IF ac.ID # 0 THEN <<<<"\"id\": ">> \o Itoa(ac.ID)>> ELSE <<>>)
    \o JsonRef("\"company\": ", ac.Company)
    \o JsonRef("\"type\": ", ac.Type)
    \o JsonField("\"username\": ", ac.Username)
    \o JsonField("\"password\": ", ac.Password)
    \o JsonField("\"2faCode\": ", ac.TwoFACode)
    \o JsonField("\"accountNumber\": ", ac.AccountNumber)
    \o JsonField("\"expires\": ", ac.Expires)
    \o JsonField("\"description\": ", ac.Description)
    \o JsonField("\"email\": ", ac.Email)
    \o JsonField("\"representative\": ", ac.Representative)
    \o JsonField("\"accountUrl\": ", ac.AccountURL)
    \o JsonField("\"techTelephone\": ", ac.TechTelephone)
    \o JsonField("\"salesTelephone\": ", ac.SalesTelephone)
    \o JsonRef("\"reviewBy\": ", ac.ReviewBy)
    \o JsonField("\"dueDate\": ", ac.DueDate)
    \o JsonField("\"notes\": ", ac.Notes)
    \o JsonField("\"modified\": ", ac.Modified)
    \o JsonField("\"url\": ", ac.URL)
    \o << <<"}">> >>

RECURSIVE marshalAccounts(_)
marshalAccounts(accounts) ==
    IF accounts = <<>> THEN <<>>
    ELSE marshalAccount(Head(accounts)) \o marshalAccounts(Tail(accounts))

\* sectionHeader(entityType): the heading of the entity type's section, ""
\* for a type it does not know.  The type is compared in lower case and
\* without its underscores.
sectionHeader(entityType) ==
    CASE entityType = "company" -> "Companies"
      [] entityType = "site" -> "Sites"
      [] entityType = "device" -> "Devices"
      [] entityType \in {"kb", "knowledgebase", "knowledge_base"} -> "Knowledge Base Articles"
      [] entityType = "contact" -> "Contacts"
      [] entityType = "agreement" -> "Agreements"
      [] entityType \in {"ipnetwork", "ip_network"} -> "IP Networks"
      [] entityType = "document" -> "Documents"
      [] entityType = "account" -> "Accounts"
      [] entityType = "facility" -> "Facilities"
      [] entityType = "cabinet" -> "Cabinets"
      [] entityType = "configuration" -> "Configurations"
      [] OTHER -> ""

\* strings.ToLower, on the letters the model's texts are made of.
ToLower(c) ==
    CASE c = "U" -> "u"
      [] c = "P" -> "p"
      [] c = "K" -> "k"
      [] c = "B" -> "b"
      [] c = "X" -> "x"
      [] OTHER -> c

LowerLine(line) == [i \in 1..Len(line) |-> ToLower(line[i])]

\* strings.Index(markdown, "\n## "+section): the first line but the first
\* that begins with the heading, 0 when there is none.
sectionStart(lines, section) ==
    LET at == {i \in 2..Len(lines) :
                  Len(lines[i]) >= 2 /\ lines[i][1] = "## " /\ lines[i][2] = section}
    IN  IF at = {} THEN 0 ELSE CHOOSE i \in at : \A j \in at : i <= j

\* findNextSection(s, start+1) for the section whose heading is line start:
\* the next line beginning with "## ", or one past the last line.
findNextSection(lines, start) ==
    LET at == {i \in (start + 1)..Len(lines) :
                  Len(lines[i]) >= 1 /\ lines[i][1] = "## "}
    IN  IF at = {} THEN Len(lines) + 1 ELSE CHOOSE i \in at : \A j \in at : i <= j

\* %q of a string: quoted, with quotes, backslashes and newlines escaped.
Quoted(v) ==
    <<"\"">> \o [i \in 1..Len(v) |-> CASE v[i] = "\"" -> "\\\""
                                        [] v[i] = "\\" -> "\\\\"
                                        [] v[i] = "\n" -> "\\n"
                                        [] OTHER -> v[i]] \o <<"\"">>

\* The blocks of SearchDocs from line i on: a matching line with the line
\* above it and the three below it, each block once.
RECURSIVE searchBlocks(_, _, _, _)
searchBlocks(lines, queryLower, i, seen) ==
    IF i > Len(lines) THEN <<>>
    ELSE LET block == SubSeq(lines, Max(1, i - 1), Min(Len(lines), i + 3))
         IN  IF Contains(LowerLine(lines[i]), queryLower) /\ block \notin seen
             THEN <<block>> \o searchBlocks(lines, queryLower, i + 1,
                                            seen \union {block})
             ELSE searchBlocks(lines, queryLower, i + 1, seen)

\* strings.Join(unique, "\n---\n")
RECURSIVE joinBlocks(_)
joinBlocks(blocks) ==
    IF blocks = <<>> THEN <<>>
    ELSE IF Len(blocks) = 1 THEN blocks[1]
    ELSE blocks[1] \o << <<"---">> >> \o joinBlocks(Tail(blocks))

\* The text SearchDocs answers with for a non-empty query, from the Markdown
\* of the snapshot it got.
searchDocsText(markdown, query, entityType, accounts) ==
    LET section == sectionHeader(entityType)
        start == IF section # "" THEN sectionStart(markdown, section) ELSE 0
        narrowed == IF start # 0
                    THEN << <<>> >> \o SubSeq(markdown, start,
                                              findNextSection(markdown, start) - 1)
                    ELSE markdown
        blocks == searchBlocks(narrowed, LowerLine(query), 1, {})
    IN  IF blocks = <<>>
        THEN << <<"No results found for ">> \o Quoted(query), <<>>,
                <<"Snapshot coverage: ">> \o Itoa(Len(accounts)) \o <<" accounts.">> >>
        ELSE << <<"Found ">> \o Itoa(Len(blocks)) \o <<" match(es) for ">>
                  \o Quoted(query) \o <<":">>, <<>> >>
             \o joinBlocks(blocks)

\* No tool or resource has been called.
\* ------------------------------------------------------- the HTTP client
\* The answers one c.httpClient.Do can get: no response at all (the
\* transport failed, the context was cancelled or timed out, or the body
\* could not be read), or a response with a status and a body.  A body is
\* not JSON of the expected shape ("invalid"), a list envelope
\* {code, data: {results, total}} ("list"), or an object whose data is one
\* entity ("entity").
HTTPStatuses == {199, 200, 299, 300, 500}
Bodies ==
    {[json |-> "invalid", results |-> <<>>, total |-> 0],
     [json |-> "entity", results |-> <<7>>, total |-> 0]}
    \cup [json : {"list"}, results : {<<>>, <<7>>, <<7, 8>>}, total : {0, 2}]
NoResponse ==
    [failed |-> TRUE, status |-> 0,
     body |-> [json |-> "invalid", results |-> <<>>, total |-> 0]]
Responses ==
    {NoResponse} \cup [failed : {FALSE}, status : HTTPStatuses, body : Bodies]

\* Client.do that takes every status below 300 for a success.
doAcceptsBelow200(resp) ==
    IF resp.failed
    THEN [data |-> NoResponse.body, err |-> "execute"]
    ELSE IF resp.status >= 300
    THEN [data |-> NoResponse.body, err |-> "status"]
    ELSE [data |-> resp.body, err |-> "nil"]

\* Client.do once the request is built: what it returns for the answer resp
\* of its one c.httpClient.Do.
do(resp) ==
    IF resp.failed
    THEN [data |-> NoResponse.body, err |-> "execute"]
    ELSE IF resp.status < 200 \/ resp.status >= 300
    THEN [data |-> NoResponse.body, err |-> "status"]
    ELSE [data |-> resp.body, err |-> "nil"]

\* ListOptions as far as listAll and its callers use it: the zero value.
ZeroListOptions == [Limit |-> 0, Offset |-> 0, Name |-> ""]

\* Page options that keep the limit and the offset the caller has set.
pagOptsKeepsCallers(opts, offset) ==
    LET o == IF opts = <<>> THEN ZeroListOptions ELSE opts[1]
    IN  [o EXCEPT !.Limit = IF o.Limit > 0 THEN o.Limit ELSE pageSize,
                  !.Offset = IF o.Offset > 0 THEN o.Offset ELSE offset]

\* pagOpts := *opts; pagOpts.Limit = pageSize; pagOpts.Offset = offset, with
\* a nil opts (the empty sequence) replaced by &ListOptions{} first.
pagOpts(opts, offset) ==
    LET o == IF opts = <<>> THEN ZeroListOptions ELSE opts[1]
    IN  [o EXCEPT !.Limit = pageSize, !.Offset = offset]

\* (*ListOptions).toQuery: a parameter is set only when its field is not
\* the zero value; a nil receiver gives the empty query.  A parameter is a
\* sequence of no or one value.
toQuery(opts) ==
    IF opts = <<>>
    THEN [limit |-> <<>>, offset |-> <<>>, name |-> <<>>]
    ELSE [limit  |-> IF opts[1].Limit > 0 THEN <<opts[1].Limit>> ELSE <<>>,
          offset |-> IF opts[1].Offset > 0 THEN <<opts[1].Offset>> ELSE <<>>,
          name   |-> IF opts[1].Name # "" THEN <<opts[1].Name>> ELSE <<>>]

\* UploadFile once the form is built: the error it returns for the answer
\* resp of its one c.httpClient.Do.
UploadFile(resp) ==
    IF resp.failed THEN "execute"
    ELSE IF resp.status < 200 \/ resp.status >= 300 THEN "status"
    ELSE "nil"

\* The request Client.do sends: its method, its path and its query.
Request(method, path, query) == <<method, path, query>>
Method(request) == request[1]
Path(request) == request[2]
Query(request) == request[3]

\* listPage over HTTP: what it returns for the answer resp of its request.
listPageHTTP(resp) ==
    LET r == do(resp)
    IN  IF r.err # "nil"
        THEN [items |-> <<>>, total |-> 0, err |-> r.err]
        ELSE IF r.data.json = "invalid"
        THEN [items |-> <<>>, total |-> 0, err |-> "unmarshal"]
        ELSE IF r.data.json = "list"
        THEN [items |-> r.data.results, total |-> r.data.total, err |-> "nil"]
        ELSE [items |-> <<>>, total |-> 0, err |-> "nil"]

\* getOne that returns the last item of the response.
getOneLast(resp) ==
    LET r == listPageHTTP(resp)
    IN  IF r.err # "nil" THEN [item |-> <<>>, err |-> r.err]
        ELSE IF Len(r.items) = 0 THEN [item |-> <<>>, err |-> "no entity found"]
        ELSE [item |-> <<r.items[Len(r.items)]>>, err |-> "nil"]

\* getOne: what it returns for the answer resp of its one listPage; item is
\* a sequence of no or one entity.
getOne(resp) ==
    LET r == listPageHTTP(resp)
    IN  IF r.err # "nil" THEN [item |-> <<>>, err |-> r.err]
        ELSE IF Len(r.items) = 0 THEN [item |-> <<>>, err |-> "no entity found"]
        ELSE [item |-> <<r.items[1]>>, err |-> "nil"]

\* createOne: the entity under data of the response, which is the zero
\* entity (0) when data holds something else.
createOne(resp) ==
    LET r == do(resp)
    IN  IF r.err # "nil" THEN [item |-> <<>>, err |-> r.err]
        ELSE IF r.data.json = "invalid" THEN [item |-> <<>>, err |-> "unmarshal"]
        ELSE IF r.data.json = "entity" THEN [item |-> <<r.data.results[1]>>, err |-> "nil"]
        ELSE [item |-> <<0>>, err |-> "nil"]

\* The options a caller hands to a list call: none (nil), the zero value,
\* or a limit, an offset and a filter of its own.
CallerOpts == {<<>>, <<ZeroListOptions>>,
               <<[Limit |-> 5, Offset |-> 7, Name |-> "n"]>>}

\* What listPage is called with in listAll: pagOpts, and the query it makes.
PageRequest(opts, offset) ==
    LET po == pagOpts(opts, offset)
    IN  [opts |-> po, query |-> toQuery(<<po>>)]

\* The offset and the limit a list request asks the service for: a
\* parameter the query does not carry counts as 0 (the service's default).
QueryOffset(query) == IF query.offset = <<>> THEN 0 ELSE query.offset[1]
QueryLimit(query) == IF query.limit = <<>> THEN 0 ELSE query.limit[1]

\* A listAll call that has not begun: called with nil options as build
\* calls it; reqs is the history of its page requests, ret the slice it
\* returned.
LaIdle == [T |-> 0, maxItems |-> 1, opts |-> <<>>, st |-> listAllStart,
           pc |-> "loop", last |-> NoPage, reqs |-> <<>>, ret |-> <<>>]

\* The client before any call.
ClIdle == [op |-> "none", sent |-> <<>>, resp |-> NoResponse,
           ret |-> [items |-> <<>>, total |-> 0, err |-> "nil"]]

\* ------------------------------------------------------ the bearer check
\* A string is a sequence of characters.
HasPrefix(s, prefix) ==
    Len(s) >= Len(prefix) /\ SubSeq(s, 1, Len(prefix)) = prefix
TrimPrefix(s, prefix) ==
    IF HasPrefix(s, prefix) THEN SubSeq(s, Len(prefix) + 1, Len(s)) ELSE s

Bearer == <<"B", "e", "a", "r", "e", "r", " ">>

\* r.Header.Get("Authorization"): the first value of the header, "" when
\* the request has none.
HeaderGet(values) == IF values = <<>> THEN <<>> ELSE values[1]

\* The middleware that accepts every token the expected key is a prefix of.
apiKeyMiddlewarePrefix(expectedKey, values) ==
    LET authHeader == HeaderGet(values)
    IN  IF ~HasPrefix(authHeader, Bearer)
        THEN [status |-> StatusUnauthorized, next |-> FALSE]
        ELSE IF ~HasPrefix(TrimPrefix(authHeader, Bearer), expectedKey)
        THEN [status |-> StatusForbidden, next |-> FALSE]
        ELSE [status |-> StatusOK, next |-> TRUE]

\* apiKeyMiddleware for a request whose Authorization header has the given
\* values: the status written, and whether next.ServeHTTP is called (the
\* status is then the handler's, StatusOK here).
apiKeyMiddleware(expectedKey, values) ==
    LET authHeader == HeaderGet(values)
    IN  IF ~HasPrefix(authHeader, Bearer)
        THEN [status |-> StatusUnauthorized, next |-> FALSE]
        ELSE IF TrimPrefix(authHeader, Bearer) # expectedKey
        THEN [status |-> StatusForbidden, next |-> FALSE]
        ELSE [status |-> StatusOK, next |-> TRUE]

\* The server before any request.
AuthIdle == [key |-> <<"k">>, log |-> <<>>]

\* No handler has answered, and no truncate call, no rendering and no tool
\* call has been made.
NoReply == [snap |-> NULL]
TrIdle == [op |-> "none"]
DocIdle == [op |-> "none"]
TcIdle == [op |-> "none"]

McpIdle ==
    LET ac == Account(<<>>, <<>>, <<>>, <<>>, <<>>)
    IN  [ac |-> ac, twin |-> ac, tool |-> "none", out |-> <<>>, outTwin |-> <<>>]

VARIABLES
    la,        \* the sequential listAll call of the pagination specs
    mcp,       \* the tool or resource call of the disclosure spec
    cl,        \* the call of the HTTP client spec: its requests, answer, result
    auth,      \* the bearer check: the configured key, the requests served
    tr,        \* the truncate call of the text spec: its input and its result
    doc,       \* the snapshot rendered and searched in the rendering spec
    tc,        \* the tool call of the handler spec: input, requests sent, result
    remote,    \* the remote service: kind -> [ver, n]
    hist,      \* history: the state of the remote service after every write sent to it
    mainpc,    \* main(): "start", "new", "newok", "bgstarted", "serve", "stopped", "exit1"
    shutdown,  \* main's signal context is done
    bg,        \* the background goroutine: "off", "loop", "returned"
    pc,        \* builder -> "idle", "fetch", "built", "failed"
    task,      \* builder -> kind -> fetch task
    egErr,     \* builder -> the errgroup's first error
    ctxErr,    \* builder -> build context: "nil", "canceled", "deadline"
    from,      \* history: builder -> index of hist at which its build began
    result,    \* builder -> snapshot pointer returned by build
    ret,       \* refresher -> what its last Refresh returned
    heap,      \* the snapshots allocated so far; a pointer is an index
    built,     \* history: what each build returned, and its window of hist
    current,   \* Cache.current
    storeLog,  \* history: the pointers stored, in order
    now,       \* the wall clock
    got,       \* the snapshot pointer a request handler holds from Get
    served,    \* history: an HTTP request was accepted
    failLog,   \* history: the builds that returned an error
    builds, events,
    reply      \* what the last request handler answered, NoReply before

cacheVars == <<remote, hist, mainpc, shutdown, bg, pc, task, egErr, ctxErr, from,
               result, ret, heap, built, current, storeLog, now, got, served,
               failLog, builds, events, reply>>
buildVars == <<pc, task, egErr, ctxErr, from, result, builds>>
vars == <<la, mcp, cl, auth, tr, doc, tc, cacheVars>>

\* The process is alive (it has neither exited nor returned from main).
Running == mainpc \notin {"stopped", "exit1"}
\* httpServer is accepting requests.
Serving == mainpc = "serve" /\ ~shutdown

InitCache ==
    /\ remote = [k \in Kinds |-> [ver |-> 0, n |-> 2 * SizeStep]]
    /\ hist = <<remote>>
    /\ mainpc = "start"
    /\ shutdown = FALSE
    /\ bg = "off"
    /\ pc = [b \in Builders |-> "idle"]
    /\ task = [b \in Builders |-> [k \in Kinds |-> taskStart]]
    /\ egErr = [b \in Builders |-> NoErr]
    /\ ctxErr = [b \in Builders |-> "nil"]
    /\ from = [b \in Builders |-> 1]
    /\ result = [b \in Builders |-> NULL]
    /\ ret = [r \in Refreshers |-> [snap |-> NULL, err |-> NoErr]]
    /\ heap = <<>>
    /\ built = <<>>
    /\ current = NULL
    /\ storeLog = <<>>
    /\ now = 1
    /\ got = NULL
    /\ served = FALSE
    /\ failLog = <<>>
    /\ builds = 0
    /\ events = 0
    /\ reply = NoReply

Init ==
    /\ la = LaIdle
    /\ mcp = McpIdle
    /\ cl = ClIdle
    /\ auth = AuthIdle
    /\ tr = TrIdle
    /\ doc = DocIdle
    /\ tc = TcIdle
    /\ InitCache



\* ------------------------------------------------------ the remote service
\* Some client of the remote service rewrites the records of kind k: every
\* record of the kind gets a new revision and the collection is resized.
RemoteWrite(k) ==
    /\ Running
    /\ events < MaxEvents
    /\ \E n \in Sizes :
        remote' = [remote EXCEPT ![k] = [ver |-> remote[k].ver + 1, n |-> n]]
    /\ hist' = Append(hist, remote')
    /\ events' = events + 1
    /\ UNCHANGED <<la, mcp, cl, auth, tr, doc, tc, reply, failLog, mainpc, shutdown, bg, buildVars, ret, heap, built, current,
                   storeLog, now, got, served>>

\* A write tool that drops the published snapshot after writing.
WriteToolInvalidates(k) ==
    /\ Serving
    /\ events < MaxEvents
    /\ \E written \in BOOLEAN, created \in {0, 1} :
          remote' = IF written
                    THEN [remote EXCEPT ![k] = [ver |-> remote[k].ver + 1,
                                                n |-> remote[k].n + created]]
                    ELSE remote
    /\ hist' = Append(hist, remote')
    /\ events' = events + 1
    /\ served' = TRUE
    /\ current' = NULL
    /\ UNCHANGED <<la, mcp, cl, auth, tr, doc, tc, reply, failLog, mainpc, shutdown, bg, buildVars, ret, heap,
                   built, storeLog, now, got>>

\* A write tool (create_kb_article, create_device, create_entity,
\* update_entity, add_device_ip, add_device_note, upload_file) sends its
\* request for a record of kind k to the remote service and answers with
\* what the service said.  The service has carried the write out (a record
\* created or a record changed) or has not; hist notes the attempt either way.
WriteTool(k) ==
    /\ Serving
    /\ events < MaxEvents
    /\ \E written \in BOOLEAN, created \in {0, 1} :
          remote' = IF written
                    THEN [remote EXCEPT ![k] = [ver |-> remote[k].ver + 1,
                                                n |-> remote[k].n + created]]
                    ELSE remote
    /\ hist' = Append(hist, remote')
    /\ events' = events + 1
    /\ served' = TRUE
    /\ UNCHANGED <<la, mcp, cl, auth, tr, doc, tc, reply, failLog, mainpc, shutdown, bg, buildVars, ret, heap,
                   built, current, storeLog, now, got>>

\* ------------------------------------------------------------------ build
\* The context build derives its own from: main's signal context for New and
\* for the background loop, the request's context for Refresh.
ParentDone(b) == b \in {InitB, BgB} /\ shutdown

\* build's first lines: the timeout context, the result variables, the
\* errgroup and its twelve eg.Go calls.
StartBuild(b) ==
    /\ pc[b] = "idle"
    /\ builds < MaxBuilds
    /\ pc' = [pc EXCEPT ![b] = "fetch"]
    /\ task' = [task EXCEPT ![b] = [k \in Kinds |-> taskStart]]
    /\ egErr' = [egErr EXCEPT ![b] = NoErr]
    /\ ctxErr' = [ctxErr EXCEPT ![b] = IF ParentDone(b) THEN "canceled" ELSE "nil"]
    /\ from' = [from EXCEPT ![b] = Len(hist)]
    /\ result' = [result EXCEPT ![b] = NULL]
    /\ builds' = builds + 1

\* A page request that succeeds whatever the state of the build's context.
FetchPageIgnoringCtx(b, k) ==
    /\ Running
    /\ pc[b] = "fetch"
    /\ task[b][k].status = "run"
    /\ LET st == listAllIter(task[b][k].st, remote[k], limitPerEntity)
       IN  task' = [task EXCEPT ![b][k] =
                       [status |-> IF st.done THEN "ok" ELSE "run", st |-> st,
                        err |-> NoErr]]
    /\ UNCHANGED <<la, mcp, cl, auth, tr, doc, tc, reply, failLog, remote, hist, mainpc, shutdown, bg, pc, egErr,
                   ctxErr, from, result, ret, heap, built, current, storeLog, now,
                   got, served, builds, events>>

\* One iteration of task k's listAll whose page request succeeds.
FetchPage(b, k) ==
    /\ Running
    /\ pc[b] = "fetch"
    /\ task[b][k].status = "run"
    /\ ctxErr[b] = "nil"
    /\ LET st == listAllIter(task[b][k].st, remote[k], limitPerEntity)
       IN  task' = [task EXCEPT ![b][k] =
                       [status |-> IF st.done THEN "ok" ELSE "run", st |-> st,
                        err |-> NoErr]]
    /\ UNCHANGED <<la, mcp, cl, auth, tr, doc, tc, reply, failLog, remote, hist, mainpc, shutdown, bg, pc, egErr, ctxErr, from,
                   result, ret, heap, built, current, storeLog, now, got, served,
                   builds, events>>

\* An errgroup that keeps the last error a task returned.
TaskReturnsErrKeepsLast(b, k, cause) ==
    /\ task' = [task EXCEPT ![b][k] = [status |-> "err", st |-> task[b][k].st,
                                       err |-> ListErr(k, cause)]]
    /\ egErr' = [egErr EXCEPT ![b] = ListErr(k, cause)]
    /\ ctxErr' = [ctxErr EXCEPT ![b] = IF ctxErr[b] = "nil" THEN "canceled"
                                       ELSE ctxErr[b]]

\* The errgroup keeps the first error a task returns and cancels its context.
TaskReturnsErr(b, k, cause) ==
    /\ task' = [task EXCEPT ![b][k] = [status |-> "err", st |-> task[b][k].st,
                                       err |-> ListErr(k, cause)]]
    /\ egErr' = [egErr EXCEPT ![b] = IF egErr[b] = NoErr THEN ListErr(k, cause)
                                     ELSE egErr[b]]
    /\ ctxErr' = [ctxErr EXCEPT ![b] = IF ctxErr[b] = "nil" THEN "canceled"
                                       ELSE ctxErr[b]]

\* The remote service answers task k's page request with an error (a status
\* outside 2xx, an undecodable body, a transport failure).
FetchFails(b, k) ==
    /\ Running
    /\ pc[b] = "fetch"
    /\ task[b][k].status = "run"
    /\ ctxErr[b] = "nil"
    /\ events < MaxEvents
    /\ events' = events + 1
    /\ TaskReturnsErr(b, k, "remote")
    /\ UNCHANGED <<la, mcp, cl, auth, tr, doc, tc, reply, failLog, remote, hist, mainpc, shutdown, bg, pc, from, result, ret,
                   heap, built, current, storeLog, now, got, served, builds>>

\* A task that, finding the build's context done, returns the pages it has
\* without an error.
FetchCancelledReturnsPartial(b, k) ==
    /\ Running
    /\ pc[b] = "fetch"
    /\ task[b][k].status = "run"
    /\ ctxErr[b] # "nil"
    /\ task' = [task EXCEPT ![b][k] = [status |-> "ok", st |-> task[b][k].st,
                                       err |-> NoErr]]
    /\ UNCHANGED <<la, mcp, cl, auth, tr, doc, tc, reply, failLog, remote, hist, mainpc, shutdown, bg, pc, from, result, ret,
                   heap, built, current, storeLog, now, got, served, builds, events,
                   egErr, ctxErr>>

\* Task k's page request is refused because the build's context is done.
FetchCancelled(b, k) ==
    /\ Running
    /\ pc[b] = "fetch"
    /\ task[b][k].status = "run"
    /\ ctxErr[b] # "nil"
    /\ TaskReturnsErr(b, k, ctxErr[b])
    /\ UNCHANGED <<la, mcp, cl, auth, tr, doc, tc, reply, failLog, remote, hist, mainpc, shutdown, bg, pc, from, result, ret,
                   heap, built, current, storeLog, now, got, served, builds, events>>

\* The build's five-minute deadline elapses while tasks are fetching.
Deadline(b) ==
    /\ Running
    /\ pc[b] = "fetch"
    /\ ctxErr[b] = "nil"
    /\ events < MaxEvents
    /\ events' = events + 1
    /\ ctxErr' = [ctxErr EXCEPT ![b] = "deadline"]
    /\ UNCHANGED <<la, mcp, cl, auth, tr, doc, tc, reply, failLog, remote, hist, mainpc, shutdown, bg, pc, task, egErr, from,
                   result, ret, heap, built, current, storeLog, now, got, served,
                   builds>>

\* build returns: its tasks, its contexts and its result variables are gone.
EndBuild(b) ==
    /\ task' = [task EXCEPT ![b] = [k \in Kinds |-> taskStart]]
    /\ ctxErr' = [ctxErr EXCEPT ![b] = "nil"]
    /\ from' = [from EXCEPT ![b] = 1]

\* A build that returns as soon as one of its tasks has returned.
BuildJoinWithoutWait(b) ==
    /\ Running
    /\ pc[b] = "fetch"
    /\ \E k \in Kinds : task[b][k].status # "run"
    /\ IF egErr[b] # NoErr
       THEN /\ pc' = [pc EXCEPT ![b] = "failed"]
            /\ failLog' = Append(failLog, [by |-> b, stores |-> Len(storeLog)])
            /\ UNCHANGED <<heap, built, result, now>>
       ELSE LET snap == Snapshot(now, [k \in Kinds |-> TaskResult(task[b][k])])
            IN  /\ heap' = Append(heap, snap)
                /\ built' = Append(built, [snap |-> snap, from |-> from[b],
                                           to |-> Len(hist), by |-> b])
                /\ result' = [result EXCEPT ![b] = Len(heap) + 1]
                /\ now' = now + 1
                /\ pc' = [pc EXCEPT ![b] = "built"]
                /\ UNCHANGED failLog
    /\ EndBuild(b)
    /\ UNCHANGED <<la, mcp, cl, auth, tr, doc, tc, reply, remote, hist, mainpc, shutdown, bg, egErr, ret, current,
                   storeLog, got, served, builds, events>>

\* A build that assembles a snapshot although a task failed.
BuildJoinIgnoringErr(b) ==
    /\ Running
    /\ pc[b] = "fetch"
    /\ \A k \in Kinds : task[b][k].status # "run"
    /\ LET snap == Snapshot(now, [k \in Kinds |-> TaskResult(task[b][k])])
       IN  /\ heap' = Append(heap, snap)
           /\ built' = Append(built, [snap |-> snap, from |-> from[b],
                                      to |-> Len(hist), by |-> b])
           /\ result' = [result EXCEPT ![b] = Len(heap) + 1]
           /\ now' = now + 1
           /\ pc' = [pc EXCEPT ![b] = "built"]
    /\ EndBuild(b)
    /\ UNCHANGED <<la, mcp, cl, auth, tr, doc, tc, reply, failLog, remote, hist, mainpc, shutdown, bg, egErr, ret, current,
                   storeLog, got, served, builds, events>>

\* eg.Wait() and what follows it: once every task has returned, build
\* returns the errgroup's error, or stamps, renders and returns the snapshot.
BuildJoin(b) ==
    /\ Running
    /\ pc[b] = "fetch"
    /\ \A k \in Kinds : task[b][k].status # "run"
    /\ IF egErr[b] # NoErr
       THEN /\ pc' = [pc EXCEPT ![b] = "failed"]
            /\ failLog' = Append(failLog, [by |-> b, stores |-> Len(storeLog)])
            /\ UNCHANGED <<heap, built, result, now>>
       ELSE LET snap == Snapshot(now, [k \in Kinds |-> TaskResult(task[b][k])])
            IN  /\ heap' = Append(heap, snap)
                /\ built' = Append(built, [snap |-> snap, from |-> from[b],
                                           to |-> Len(hist), by |-> b])
                /\ result' = [result EXCEPT ![b] = Len(heap) + 1]
                /\ now' = now + 1
                /\ pc' = [pc EXCEPT ![b] = "built"]
                /\ UNCHANGED failLog
    /\ EndBuild(b)
    /\ UNCHANGED <<la, mcp, cl, auth, tr, doc, tc, reply, remote, hist, mainpc, shutdown, bg, egErr, ret, current,
                   storeLog, got, served, builds, events>>

\* ------------------------------------------------------------ publication
\* A store that copies the new collections into the published object.
StoreInPlace(cur, h, p) ==
    IF cur = NULL THEN [current |-> p, heap |-> h]
    ELSE [current |-> cur, heap |-> [h EXCEPT ![cur].data = h[p].data]]

\* A store that keeps the published snapshot when it is the younger one.
StoreIfNewer(cur, h, p) ==
    IF cur # NULL /\ h[cur].GeneratedAt > h[p].GeneratedAt
    THEN [current |-> cur, heap |-> h]
    ELSE [current |-> p, heap |-> h]

\* c.current.Store(snap): the pointer is swapped, no snapshot is touched.
Store(cur, h, p) == [current |-> p, heap |-> h]

\* The caller of build publishes the snapshot build returned to it.
Publish(b) ==
    /\ pc[b] = "built"
    /\ LET s == Store(current, heap, result[b])
       IN  /\ current' = s.current
           /\ heap' = s.heap
    /\ storeLog' = Append(storeLog, result[b])
    /\ result' = [result EXCEPT ![b] = NULL]
    /\ pc' = [pc EXCEPT ![b] = "idle"]

\* c.current.Load()
Load(cur) == cur


\* -------------------------------------------------------------- New, main
\* main calls cache.New, which starts the initial build.
New ==
    /\ mainpc = "start"
    /\ StartBuild(InitB)
    /\ mainpc' = "new"
    /\ UNCHANGED <<la, mcp, cl, auth, tr, doc, tc, reply, failLog, remote, hist, shutdown, bg, ret, heap, built, current,
                   storeLog, now, got, served, events>>

\* New stores the initial snapshot and returns the cache.
NewStore ==
    /\ mainpc = "new"
    /\ Publish(InitB)
    /\ mainpc' = "newok"
    /\ UNCHANGED <<la, mcp, cl, auth, tr, doc, tc, reply, failLog, remote, hist, shutdown, bg, task, egErr, ctxErr, from,
                   ret, built, now, got, served, builds, events>>

\* A main that goes on after New has returned an error.
NewFailIgnored ==
    /\ mainpc = "new"
    /\ pc[InitB] = "failed"
    /\ pc' = [pc EXCEPT ![InitB] = "idle"]
    /\ egErr' = [egErr EXCEPT ![InitB] = NoErr]
    /\ mainpc' = "newok"
    /\ UNCHANGED <<la, mcp, cl, auth, tr, doc, tc, reply, failLog, remote, hist, shutdown, bg, task, ctxErr, from, result,
                   ret, heap, built, current, storeLog, now, got, served, builds, events>>

\* New returns (nil, error) and main logs it and calls os.Exit(1).
NewFail ==
    /\ mainpc = "new"
    /\ pc[InitB] = "failed"
    /\ pc' = [pc EXCEPT ![InitB] = "idle"]
    /\ egErr' = [egErr EXCEPT ![InitB] = NoErr]
    /\ mainpc' = "exit1"
    /\ UNCHANGED <<la, mcp, cl, auth, tr, doc, tc, reply, failLog, remote, hist, shutdown, bg, task, ctxErr, from, result,
                   ret, heap, built, current, storeLog, now, got, served, builds, events>>

\* docCache.StartBackgroundRefresh(ctx): the goroutine enters its loop.
StartBackgroundRefresh ==
    /\ mainpc = "newok"
    /\ bg = "off"
    /\ bg' = "loop"
    /\ mainpc' = "bgstarted"
    /\ UNCHANGED <<la, mcp, cl, auth, tr, doc, tc, reply, failLog, remote, hist, shutdown, buildVars, ret, heap, built, current,
                   storeLog, now, got, served, events>>

\* httpServer.ListenAndServe(): requests are accepted from here on, unless
\* the shutdown goroutine has already closed the server.
ListenAndServe ==
    /\ mainpc = "bgstarted"
    /\ mainpc' = IF shutdown THEN "stopped" ELSE "serve"
    /\ UNCHANGED <<la, mcp, cl, auth, tr, doc, tc, reply, failLog, remote, hist, shutdown, bg, buildVars, ret, heap, built,
                   current, storeLog, now, got, served, events>>

\* A signal that leaves the builds in progress their context.
ShutdownSparesBuilds ==
    /\ Running
    /\ ~shutdown
    /\ events < MaxEvents
    /\ events' = events + 1
    /\ shutdown' = TRUE
    /\ UNCHANGED <<la, mcp, cl, auth, tr, doc, tc, reply, failLog, remote, hist, mainpc, bg, pc, task, egErr,
                   ctxErr, from, result, ret, heap, built, current, storeLog, now,
                   got, served, builds>>

\* SIGINT or SIGTERM: main's context is done, and with it the context of
\* every build derived from it.
Shutdown ==
    /\ Running
    /\ ~shutdown
    /\ events < MaxEvents
    /\ events' = events + 1
    /\ shutdown' = TRUE
    /\ ctxErr' = [b \in Builders |->
                    IF b \in {InitB, BgB} /\ pc[b] = "fetch" /\ ctxErr[b] = "nil"
                    THEN "canceled" ELSE ctxErr[b]]
    /\ UNCHANGED <<la, mcp, cl, auth, tr, doc, tc, reply, failLog, remote, hist, mainpc, bg, pc, task, egErr, from, result, ret,
                   heap, built, current, storeLog, now, got, served, builds>>

\* httpServer.Shutdown has waited for the requests in flight; ListenAndServe
\* returns and main returns, which ends every goroutine.
ServerStopped ==
    /\ mainpc = "serve"
    /\ shutdown
    /\ got = NULL
    /\ \A r \in Refreshers : pc[r] = "idle"
    /\ mainpc' = "stopped"
    /\ UNCHANGED <<la, mcp, cl, auth, tr, doc, tc, reply, failLog, remote, hist, shutdown, bg, buildVars, ret, heap, built,
                   current, storeLog, now, got, served, events>>

\* ---------------------------------------------------------------- Refresh
\* A Refresh that waits until no other build is running.
RefreshSerialised(r) ==
    /\ Serving
    /\ \A b \in Builders \ {r} : pc[b] = "idle"
    /\ StartBuild(r)
    /\ served' = TRUE
    /\ UNCHANGED <<la, mcp, cl, auth, tr, doc, tc, reply, failLog, remote, hist, mainpc, shutdown, bg, ret, heap,
                   built, current, storeLog, now, got, events>>

\* The refresh_snapshot tool calls Cache.Refresh, which starts a build.
Refresh(r) ==
    /\ Serving
    /\ StartBuild(r)
    /\ served' = TRUE
    /\ UNCHANGED <<la, mcp, cl, auth, tr, doc, tc, reply, failLog, remote, hist, mainpc, shutdown, bg, ret, heap, built, current,
                   storeLog, now, got, events>>

\* Refresh stores the snapshot and returns (snap, nil).
RefreshStore(r) ==
    /\ Running
    /\ Publish(r)
    /\ ret' = [ret EXCEPT ![r] = [snap |-> result[r], err |-> NoErr]]
    /\ UNCHANGED <<la, mcp, cl, auth, tr, doc, tc, reply, failLog, remote, hist, mainpc, shutdown, bg, task, egErr, ctxErr, from,
                   built, now, got, served, builds, events>>

\* A Refresh that stores what build returned before it looks at the error.
RefreshFailStoresNil(r) ==
    /\ Running
    /\ pc[r] = "failed"
    /\ current' = NULL
    /\ pc' = [pc EXCEPT ![r] = "idle"]
    /\ egErr' = [egErr EXCEPT ![r] = NoErr]
    /\ ret' = [ret EXCEPT ![r] = [snap |-> NULL, err |-> egErr[r]]]
    /\ UNCHANGED <<la, mcp, cl, auth, tr, doc, tc, reply, failLog, remote, hist, mainpc, shutdown, bg, task, ctxErr, from,
                   result, heap, built, storeLog, now, got, served, builds, events>>

\* if err != nil { return nil, err }
RefreshFail(r) ==
    /\ Running
    /\ pc[r] = "failed"
    /\ pc' = [pc EXCEPT ![r] = "idle"]
    /\ egErr' = [egErr EXCEPT ![r] = NoErr]
    /\ ret' = [ret EXCEPT ![r] = [snap |-> NULL, err |-> egErr[r]]]
    /\ UNCHANGED <<la, mcp, cl, auth, tr, doc, tc, reply, failLog, remote, hist, mainpc, shutdown, bg, task, ctxErr, from,
                   result, heap, built, current, storeLog, now, got, served, builds, events>>

\* ---------------------------------------------------- the background loop
\* A tick that starts a build of the loop while one is under way.
BgTickDuringBuild ==
    /\ Running
    /\ bg = "loop"
    /\ builds < MaxBuilds
    /\ pc' = [pc EXCEPT ![BgB] = "fetch"]
    /\ task' = [task EXCEPT ![BgB] = [k \in Kinds |-> taskStart]]
    /\ egErr' = [egErr EXCEPT ![BgB] = NoErr]
    /\ ctxErr' = [ctxErr EXCEPT ![BgB] = IF ParentDone(BgB) THEN "canceled" ELSE "nil"]
    /\ from' = [from EXCEPT ![BgB] = Len(hist)]
    /\ result' = [result EXCEPT ![BgB] = NULL]
    /\ builds' = builds + 1
    /\ UNCHANGED <<la, mcp, cl, auth, tr, doc, tc, reply, failLog, remote, hist, mainpc, shutdown, bg, ret, heap, built, current,
                   storeLog, now, got, served, events>>

\* case <-ticker.C: the loop starts a build.
BgTick ==
    /\ Running
    /\ bg = "loop"
    /\ StartBuild(BgB)
    /\ UNCHANGED <<la, mcp, cl, auth, tr, doc, tc, reply, failLog, remote, hist, mainpc, shutdown, bg, ret, heap, built, current,
                   storeLog, now, got, served, events>>

\* The loop stores the snapshot, logs and goes back to its select.
BgStore ==
    /\ Running
    /\ Publish(BgB)
    /\ UNCHANGED <<la, mcp, cl, auth, tr, doc, tc, reply, failLog, remote, hist, mainpc, shutdown, bg, task, egErr, ctxErr, from,
                   ret, built, now, got, served, builds, events>>

\* A loop that stores what build returned before it looks at the error.
BgFailStoresNil ==
    /\ Running
    /\ pc[BgB] = "failed"
    /\ pc' = [pc EXCEPT ![BgB] = "idle"]
    /\ egErr' = [egErr EXCEPT ![BgB] = NoErr]
    /\ current' = NULL
    /\ UNCHANGED <<la, mcp, cl, auth, tr, doc, tc, reply, failLog, remote, hist, mainpc, shutdown, bg, task, ctxErr,
                   from, result, ret, heap, built, storeLog, now, got, served,
                   builds, events>>

\* A loop that returns when a build fails.
BgFailReturns ==
    /\ Running
    /\ pc[BgB] = "failed"
    /\ pc' = [pc EXCEPT ![BgB] = "idle"]
    /\ egErr' = [egErr EXCEPT ![BgB] = NoErr]
    /\ bg' = "returned"
    /\ UNCHANGED <<la, mcp, cl, auth, tr, doc, tc, reply, failLog, remote, hist, mainpc, shutdown, task, ctxErr,
                   from, result, ret, heap, built, current, storeLog, now, got,
                   served, builds, events>>

\* The loop logs the error and continues with its select.
BgFail ==
    /\ Running
    /\ pc[BgB] = "failed"
    /\ pc' = [pc EXCEPT ![BgB] = "idle"]
    /\ egErr' = [egErr EXCEPT ![BgB] = NoErr]
    /\ UNCHANGED <<la, mcp, cl, auth, tr, doc, tc, reply, failLog, remote, hist, mainpc, shutdown, bg, task, ctxErr, from,
                   result, ret, heap, built, current, storeLog, now, got, served,
                   builds, events>>

\* A loop that may return at any select.
BgExitAnytime ==
    /\ Running
    /\ bg = "loop"
    /\ pc[BgB] = "idle"
    /\ bg' = "returned"
    /\ UNCHANGED <<la, mcp, cl, auth, tr, doc, tc, reply, failLog, remote, hist, mainpc, shutdown, buildVars, ret,
                   heap, built, current, storeLog, now, got, served, events>>

\* case <-ctx.Done(): the goroutine returns.
BgExit ==
    /\ Running
    /\ bg = "loop"
    /\ pc[BgB] = "idle"
    /\ shutdown
    /\ bg' = "returned"
    /\ UNCHANGED <<la, mcp, cl, auth, tr, doc, tc, reply, failLog, remote, hist, mainpc, shutdown, buildVars, ret, heap, built,
                   current, storeLog, now, got, served, events>>

\* ---------------------------------------------------------------- readers
\* A request handler (search_docs, a resource) calls Cache.Get.
Get ==
    /\ Serving
    /\ got = NULL
    /\ got' = Load(current)
    /\ served' = TRUE
    /\ UNCHANGED <<la, mcp, cl, auth, tr, doc, tc, reply, failLog, remote, hist, mainpc, shutdown, bg, buildVars, ret, heap,
                   built, current, storeLog, now, events>>

\* The answer of SearchDocs or of a resource handler: its text is made of
\* the Markdown of the snapshot text points to, its counts are the lengths
\* of the collections of the snapshot counts points to.  latest records
\* the snapshot that was published when the handler returned.
Response(text, counts, latest) ==
    [snap |-> text,
     text |-> heap[text].Markdown,
     counts |-> [k \in Kinds |-> Count(heap[counts].data[k])],
     latest |-> latest]

\* A handler that empties the collections of the snapshot it answered from.
HandlerClearsSnapshot ==
    /\ Running
    /\ got # NULL
    /\ got' = NULL
    /\ heap' = [heap EXCEPT ![got].data = [k \in Kinds |-> <<>>]]
    /\ reply' = Response(got, got, current)
    /\ UNCHANGED <<la, mcp, cl, auth, tr, doc, tc, failLog, remote, hist, mainpc, shutdown, bg, buildVars, ret,
                   built, current, storeLog, now, served, events>>

\* A handler that calls Get a second time for the counts of its answer.
HandlerGetsTwice ==
    /\ Running
    /\ got # NULL
    /\ got' = NULL
    /\ reply' = Response(got, Load(current), current)
    /\ UNCHANGED <<la, mcp, cl, auth, tr, doc, tc, failLog, remote, hist, mainpc, shutdown, bg, buildVars, ret, heap,
                   built, current, storeLog, now, served, events>>

\* The handler has answered from the snapshot it holds and returns: the
\* text and the counts of its answer are those of the snapshot snap that
\* its one call of Get returned.
HandlerReturns ==
    /\ Running
    /\ got # NULL
    /\ got' = NULL
    /\ reply' = Response(got, got, current)
    /\ UNCHANGED <<la, mcp, cl, auth, tr, doc, tc, failLog, remote, hist, mainpc, shutdown, bg, buildVars, ret, heap,
                   built, current, storeLog, now, served, events>>

Next ==
    \/ \E k \in Kinds : RemoteWrite(k)
    \/ \E k \in Kinds : WriteTool(k)
    \/ \E b \in Builders, k \in Kinds : FetchPage(b, k)
    \/ \E b \in Builders, k \in Kinds : FetchFails(b, k)
    \/ \E b \in Builders, k \in Kinds : FetchCancelled(b, k)
    \/ \E b \in Builders : Deadline(b)
    \/ \E b \in Builders : BuildJoin(b)
    \/ New
    \/ NewStore
    \/ NewFail
    \/ StartBackgroundRefresh
    \/ ListenAndServe
    \/ Shutdown
    \/ ServerStopped
    \/ \E r \in Refreshers : Refresh(r)
    \/ \E r \in Refreshers : RefreshStore(r)
    \/ \E r \in Refreshers : RefreshFail(r)
    \/ BgTick
    \/ BgStore
    \/ BgFail
    \/ BgExit
    \/ Get
    \/ HandlerReturns

Spec == Init /\ [][Next]_vars

\* The steps of main before it serves, of the initial build and of the
\* background goroutine.
Startup ==
    \/ New \/ NewStore \/ NewFail \/ StartBackgroundRefresh \/ ListenAndServe
    \/ \E k \in Kinds : FetchPage(InitB, k) \/ FetchCancelled(InitB, k)
    \/ BuildJoin(InitB)
BgStep ==
    \/ \E k \in Kinds : FetchPage(BgB, k) \/ FetchCancelled(BgB, k)
    \/ BuildJoin(BgB)
    \/ BgStore
    \/ BgFail

\* The scheduler runs main and the goroutine as long as they can take a
\* step, and a select at which ctx.Done() is ready again and again takes
\* that case in the end, select choosing at random among the ready cases.
SpecFair ==
    Spec /\ WF_vars(Startup) /\ WF_vars(BgStep) /\ SF_vars(BgExit)

\* ------------------------------------------------- pagination, sequential
\* One listAll call against a synthetic service holding T records.
InitList ==
    /\ \E T \in 0..MaxTotal, m \in 1..MaxBudget :
          la = [LaIdle EXCEPT !.T = T, !.maxItems = m]
    /\ mcp = McpIdle
    /\ cl = ClIdle
    /\ auth = AuthIdle
    /\ tr = TrIdle
    /\ doc = DocIdle
    /\ tc = TcIdle
    /\ InitCache

ListAllPage ==
    /\ la.pc = "loop"
    /\ ~la.st.done
    /\ LET rq == PageRequest(la.opts, la.st.offset)
           page == listPage([ver |-> 0, n |-> la.T], QueryLimit(rq.query),
                            QueryOffset(rq.query))
       IN  la' = [la EXCEPT !.st = listAllStep(la.st, page, la.maxItems),
                            !.last = [n |-> page.items.len, total |-> page.total],
                            !.reqs = Append(@, rq)]
    /\ UNCHANGED <<mcp, cl, auth, tr, doc, tc, cacheVars>>

ListAllReturn ==
    /\ la.pc = "loop"
    /\ la.st.done
    /\ la' = [la EXCEPT !.pc = "returned", !.ret = la.st.all]
    /\ UNCHANGED <<mcp, cl, auth, tr, doc, tc, cacheVars>>

NextList == ListAllPage \/ ListAllReturn

SpecList == InitList /\ [][NextList]_vars

\* ------------------------------------- pagination, any remote behaviour
\* One listAll call against a service that answers each page request as it
\* likes: any number of items, any declared total, or an error.
InitListAny ==
    /\ \E m \in -1..MaxAnyBudget, opts \in CallerOpts :
          la = [LaIdle EXCEPT !.maxItems = m, !.opts = opts]
    /\ mcp = McpIdle
    /\ cl = ClIdle
    /\ auth = AuthIdle
    /\ tr = TrIdle
    /\ doc = DocIdle
    /\ tc = TcIdle
    /\ InitCache

\* items, total, err := listPage(...) with err == nil.
ListAnyPage ==
    /\ la.pc = "loop"
    /\ ~la.st.done
    /\ \E n \in 0..MaxAnyPage, t \in -1..MaxAnyTotal :
          LET rq == PageRequest(la.opts, la.st.offset)
              page == [items |-> [ver |-> 0, off |-> QueryOffset(rq.query),
                                  len |-> n],
                       total |-> t]
          IN  la' = [la EXCEPT !.st = listAllStep(la.st, page, la.maxItems),
                               !.last = [n |-> n, total |-> t],
                               !.reqs = Append(@, rq)]
    /\ UNCHANGED <<mcp, cl, auth, tr, doc, tc, cacheVars>>

\* if err != nil { return nil, err }
ListAnyFails ==
    /\ la.pc = "loop"
    /\ ~la.st.done
    /\ la' = [la EXCEPT !.pc = "failed",
                         !.st.requests = @ + 1,
                         !.reqs = Append(@, PageRequest(la.opts, la.st.offset)),
                         !.ret = <<>>]
    /\ UNCHANGED <<mcp, cl, auth, tr, doc, tc, cacheVars>>

NextListAny == ListAnyPage \/ ListAnyFails \/ ListAllReturn

SpecListAny == InitListAny /\ [][NextListAny]_vars

\* ------------------------------------------------ what the handlers return
\* The remote service holds one account, mcp.ac; mcp.twin is the account of
\* a second service equal to the first but for the password and the 2FA
\* code.  Each call is made against both, and answers out and outTwin.
Passwords == {<<>>, <<"p">>, <<"q">>}
TwoFACodes == {<<>>, <<"x">>, <<"y">>}
Queries == {<<"u">>, <<"U">>, <<"p">>, <<"x">>, <<"t">>}

InitDisclosure ==
    /\ \E company \in {<<>>, <<[ID |-> 7, Name |-> <<"c">>]>>},
          username \in {<<>>, <<"u">>},
          description \in {<<>>, <<"<", "b", "r", ">", "d">>},
          p1 \in Passwords, p2 \in Passwords,
          c1 \in TwoFACodes, c2 \in TwoFACodes :
          mcp = [ac |-> Account(company, username, p1, c1, description),
                 twin |-> Account(company, username, p2, c2, description),
                 tool |-> "none", out |-> <<>>, outTwin |-> <<>>]
    /\ cl = ClIdle
    /\ auth = AuthIdle
    /\ tr = TrIdle
    /\ doc = DocIdle
    /\ tc = TcIdle
    /\ la = LaIdle
    /\ InitCache

\* The call `tool` answers out from the one service, outTwin from the other.
Answer(tool, out, outTwin) ==
    /\ mcp.tool = "none"
    /\ mcp' = [mcp EXCEPT !.tool = tool, !.out = out, !.outTwin = outTwin]
    /\ UNCHANGED <<la, cl, auth, tr, doc, tc, cacheVars>>

\* SnapshotResource: Text is snap.Markdown.
SnapshotResource ==
    Answer("snapshot", accountsMarkdown(<<mcp.ac>>), accountsMarkdown(<<mcp.twin>>))

\* CompaniesResource, SitesResource, DevicesResource, KBsResource,
\* ContactsResource: the JSON of a collection other than the accounts,
\* which is a nil slice here.
CollectionResource ==
    LET text(accounts) == << <<"null">> >>
    IN  Answer("collection", text(<<mcp.ac>>), text(<<mcp.twin>>))

\* SearchDocs with a query that is not empty.
SearchDocs ==
    \E query \in Queries, entityType \in {"", "account", "company"} :
        LET text(accounts) ==
                searchDocsText(accountsMarkdown(accounts), query, entityType, accounts)
        IN  Answer("search_docs", text(<<mcp.ac>>), text(<<mcp.twin>>))

\* ListEntities with entity_type account: the page the service returns,
\* marshalled whole under items.
ListEntities ==
    LET text(accounts) ==
            << <<"{">>, <<"\"total\": ">> \o Itoa(Len(accounts)),
               <<"\"offset\": ", "0">>, <<"\"limit\": ", "5", "0">>,
               <<"\"items\": [">> >>
            \o marshalAccounts(accounts) \o << <<"]">>, <<"}">> >>
    IN  Answer("list_entities", text(<<mcp.ac>>), text(<<mcp.twin>>))

\* GetEntityDetails with entity_type account: marshalResult of the account.
GetEntityDetails ==
    LET text(accounts) == marshalAccount(accounts[1])
    IN  Answer("get_entity_details", text(<<mcp.ac>>), text(<<mcp.twin>>))

\* CreateEntity with entity_type account: of the account the service sends
\* back, the ID and the URL are printed.
CreateEntity ==
    LET text(accounts) ==
            << <<"account", " created. ID: ">> \o Itoa(accounts[1].ID)
               \o <<"  Portal: ">> \o accounts[1].URL >>
    IN  Answer("create_entity", text(<<mcp.ac>>), text(<<mcp.twin>>))

\* UpdateEntity with entity_type account: the ID of the input is printed.
UpdateEntity ==
    LET text(accounts) ==
            << <<"account", " ID ">> \o Itoa(accounts[1].ID)
               \o <<" updated successfully.">> >>
    IN  Answer("update_entity", text(<<mcp.ac>>), text(<<mcp.twin>>))

\* RefreshSnapshot: the stamp and the counts of the snapshot Refresh returned.
RefreshSnapshot ==
    LET text(accounts) ==
            << <<"Snapshot refreshed at ">> \o Itoa(now) \o <<" UTC.">>,
               <<"Accounts: ">> \o Itoa(Len(accounts)) >>
    IN  Answer("refresh_snapshot", text(<<mcp.ac>>), text(<<mcp.twin>>))

NextDisclosure ==
    \/ SnapshotResource
    \/ CollectionResource
    \/ SearchDocs
    \/ ListEntities
    \/ GetEntityDetails
    \/ CreateEntity
    \/ UpdateEntity
    \/ RefreshSnapshot

SpecDisclosure == InitDisclosure /\ [][NextDisclosure]_vars

\* --------------------------------------------------------- the HTTP client
\* One call of each kind, and one listAll call as a build makes it, against a
\* service that answers as it likes.
ListPath == "/api/2.0/companies/"
EntityPath == "/api/2.0/companies/7/"
UploadPath == "/api/2.0/devices/7/configurationFiles/"

InitClient ==
    /\ \E m \in 1..MaxAnyBudget : la = [LaIdle EXCEPT !.maxItems = m]
    /\ mcp = McpIdle
    /\ cl = ClIdle
    /\ auth = AuthIdle
    /\ tr = TrIdle
    /\ doc = DocIdle
    /\ tc = TcIdle
    /\ InitCache

\* A call of op that sends requests, is answered by answer, returns out.
Call(op, requests, answer, out) ==
    /\ cl.op = "none"
    /\ cl' = [op |-> op, sent |-> requests, resp |-> answer, ret |-> out]
    /\ UNCHANGED <<la, mcp, auth, tr, doc, tc, cacheVars>>

\* listPage(ctx, c, path, opts).
ClListPage ==
    \E opts \in CallerOpts, resp \in Responses :
        Call("listPage", <<Request("GET", ListPath, toQuery(opts))>>, resp,
             listPageHTTP(resp))

\* getOne(ctx, c, path).
ClGetOne ==
    \E resp \in Responses :
        Call("getOne", <<Request("GET", EntityPath, toQuery(<<>>))>>, resp,
             [items |-> getOne(resp).item, total |-> 0, err |-> getOne(resp).err])

\* createOne(ctx, c, path, body).
ClCreateOne ==
    \E resp \in Responses :
        Call("createOne", <<Request("POST", ListPath, toQuery(<<>>))>>, resp,
             [items |-> createOne(resp).item, total |-> 0,
              err |-> createOne(resp).err])

\* An update that reads the entity before it patches it.
ClUpdateReadsFirst ==
    \E resp \in Responses :
        Call("update", <<Request("GET", EntityPath, toQuery(<<>>)),
                         Request("PATCH", EntityPath, toQuery(<<>>))>>, resp,
             [items |-> <<>>, total |-> 0, err |-> do(resp).err])

\* UpdateCompany(ctx, id, fields), and the other updates alike.
ClUpdate ==
    \E resp \in Responses :
        Call("update", <<Request("PATCH", EntityPath, toQuery(<<>>))>>, resp,
             [items |-> <<>>, total |-> 0, err |-> do(resp).err])

\* UploadFile(ctx, uploadPath, fileName, contentType, fileData).
ClUpload ==
    \E resp \in Responses :
        Call("upload", <<Request("POST", UploadPath, toQuery(<<>>))>>, resp,
             [items |-> <<>>, total |-> 0, err |-> UploadFile(resp)])

NextClient ==
    \/ ClListPage
    \/ ClGetOne
    \/ ClCreateOne
    \/ ClUpdate
    \/ ClUpload
    \/ ListAnyPage
    \/ ListAnyFails
    \/ ListAllReturn

SpecClient == InitClient /\ [][NextClient]_vars

\* --------------------------------------------------------- the bearer check
\* The server with its configured key, serving requests whose Authorization
\* header has no, one or two values.
Keys == {<<"k">>, <<"k", "2">>}
Tokens == {<<>>, <<"k">>, <<"k", "2">>, <<"K">>, <<"k", " ">>, <<" ", "k">>}
Schemes == {Bearer, <<"b", "e", "a", "r", "e", "r", " ">>,
            <<"B", "e", "a", "r", "e", "r">>, <<"B", "a", "s", "i", "c", " ">>, <<>>}
AuthHeaders == {sch \o t : sch \in Schemes, t \in Tokens}
HeaderValues ==
    {<<>>} \cup {<<h>> : h \in AuthHeaders}
           \cup {<<h, Bearer \o <<"k">> >> : h \in AuthHeaders}

InitAuth ==
    /\ \E key \in Keys : auth = [key |-> key, log |-> <<>>]
    /\ la = LaIdle
    /\ mcp = McpIdle
    /\ cl = ClIdle
    /\ tr = TrIdle
    /\ doc = DocIdle
    /\ tc = TcIdle
    /\ InitCache

\* authHandler.ServeHTTP for one request.
ServeHTTP ==
    /\ Len(auth.log) < MaxRequests
    /\ \E values \in HeaderValues :
          LET r == apiKeyMiddleware(auth.key, values)
          IN  auth' = [auth EXCEPT !.log = Append(@, [values |-> values,
                                                      status |-> r.status,
                                                      next |-> r.next])]
    /\ UNCHANGED <<la, mcp, cl, tr, doc, tc, cacheVars>>

NextAuth == ServeHTTP

SpecAuth == InitAuth /\ [][NextAuth]_vars

\* ------------------------------------------------------- truncated texts
\* The texts truncate is called with: every text of up to MaxLen runes over
\* Runes, and texts with the markup truncate replaces or strips (line
\* breaks, closing tags, nested, unbalanced and unclosed brackets).
MaxLen == 4
MaxCap == 3
Runes == {"a", " ", "\n", "<", ">", "e'"}
ShortTexts == UNION {[1..n -> Runes] : n \in 0..MaxLen}
MarkupTexts ==
    { <<"a", "<", "b", "r", ">", "b">>,
      <<"a", "<", "b", "r", "/", ">", " ", "b">>,
      <<"a", " ", "<", "b", "r", " ", "/", ">", "b">>,
      <<"<", "p", ">", "a", "<", "/", "p", ">", "b", "e'">>,
      <<"<", "d", "i", "v", ">", "a", "<", "/", "d", "i", "v", ">", "b", "c">>,
      <<"<", "<", "b", "r", ">", "a", ">", "b", "c">>,
      <<"a", "<", "b", " ", "c", "<", "i", ">", ">", "d", ">", "e'">>,
      <<"a", "e'", "b", "<", "i" >>,
      <<"a", "\t", "\r", "\n", "b", ">", ">", "c", "e'", "d">> }
Texts == ShortTexts \union MarkupTexts

\* Caps of 500 for the content of a KB article and of 300 for every other
\* attribute.
attributeCap300Or500(kind, attr) ==
    IF kind = "kb" /\ attr = "Description" THEN 500 ELSE 300

\* The cap buildMarkdown passes to truncate for the attribute attr of an
\* item of kind.
attributeCap(kind, attr) ==
    CASE kind = "kb" /\ attr = "Description" -> 500
      [] kind = "agreement" /\ attr = "Description" -> 200
      [] kind = "ipnetwork" /\ attr = "Description" -> 200
      [] OTHER -> 300

\* The attributes buildMarkdown truncates, kind by kind; contacts and
\* documents have none.
TruncatedAttributes ==
    { <<"company", "Description">>, <<"company", "Notes">>,
      <<"company", "RemoteAccessNotes">>, <<"site", "Description">>,
      <<"device", "Description">>, <<"kb", "Description">>,
      <<"agreement", "Description">>, <<"ipnetwork", "Description">>,
      <<"account", "Description">>, <<"account", "Notes">>,
      <<"facility", "Description">>, <<"facility", "Notes">>,
      <<"cabinet", "Description">>, <<"cabinet", "Notes">>,
      <<"configuration", "Notes">> }

\* The label buildMarkdown prints in front of the attribute.
attributeLabel(kind, attr) ==
    CASE kind = "kb" /\ attr = "Description" -> "- **Content**: "
      [] kind = "ipnetwork" /\ attr = "Description" -> "- **Notes**: "
      [] attr = "RemoteAccessNotes" -> "- **Remote Access Notes**: "
      [] attr = "Notes" -> "- **Notes**: "
      [] OTHER -> "- **Description**: "

\* if x.Attr != "" { fmt.Fprintf(&b, label+"%s\n", truncate(x.Attr, cap)) }:
\* the lines the attribute adds to the text.
attributeLines(kind, attr, v) ==
    IF v # <<>>
    THEN <<<<attributeLabel(kind, attr)>> \o truncate(v, attributeCap(kind, attr))>>
    ELSE <<>>

\* The lengths of the attribute values rendered: around each cap.
CapSlack == 1
Caps == {200, 300, 500}
ValueLengths == (0..CapSlack) \union
                {c + d : c \in Caps, d \in (0 - CapSlack)..CapSlack}
\* A value of n runes, plain or inside a tag pair.
PlainValue(n) == [i \in 1..n |-> "a"]
TaggedValue(n) == <<"<", "b", ">">> \o PlainValue(n) \o <<"<", "/", "b", ">">>

\* ----------------------------------------------------- the rendered text
\* The twelve collections of a snapshot in the order buildMarkdown renders
\* them, named by their entity types.
EntityKinds == <<"company", "site", "device", "kb", "contact", "agreement",
                 "ipnetwork", "document", "account", "facility", "cabinet",
                 "configuration">>
KindSet == Range(EntityKinds)

\* The title buildMarkdown gives the section of a kind, and the word of the
\* summary line for it.
sectionTitle(kind) ==
    CASE kind = "company" -> "Companies"
      [] kind = "site" -> "Sites"
      [] kind = "device" -> "Devices"
      [] kind = "kb" -> "Knowledge Base Articles"
      [] kind = "contact" -> "Contacts"
      [] kind = "agreement" -> "Agreements"
      [] kind = "ipnetwork" -> "IP Networks"
      [] kind = "document" -> "Documents"
      [] kind = "account" -> "Accounts"
      [] kind = "facility" -> "Facilities"
      [] kind = "cabinet" -> "Cabinets"
      [] kind = "configuration" -> "Configurations"

summaryWord(kind) ==
    CASE kind = "company" -> " companies"
      [] kind = "site" -> " sites"
      [] kind = "device" -> " devices"
      [] kind = "kb" -> " KB articles"
      [] kind = "contact" -> " contacts"
      [] kind = "agreement" -> " agreements"
      [] kind = "ipnetwork" -> " IP networks"
      [] kind = "document" -> " documents"
      [] kind = "account" -> " accounts"
      [] kind = "facility" -> " facilities"
      [] kind = "cabinet" -> " cabinets"
      [] kind = "configuration" -> " configurations"

\* The kinds whose heading buildMarkdown writes outside any test of the
\* collection's length.
UnguardedKinds == {"company", "site", "device", "kb", "contact"}

\* An item of a kind other than account, with the fields its heading and
\* its truncated description are made of; the other fields are empty.
Item(ID, Name, Description) == [ID |-> ID, Name |-> Name, Description |-> Description]

\* fmt.Fprintf(&b, "### ...\n", ...): the heading of an item.
itemHeading(kind, it) ==
    CASE kind = "agreement" -> <<"### ", "Agreement ID: ">> \o Itoa(it.ID)
      [] kind = "document" ->
            <<"### ">> \o it.Description \o <<" (ID: ">> \o Itoa(it.ID) \o <<")">>
      [] OTHER -> <<"### ">> \o it.Name \o <<" (ID: ">> \o Itoa(it.ID) \o <<")">>

\* The body of buildMarkdown's loop over a collection: the lines of one
\* item, the blank line after it included.
itemLines(kind, it) ==
    IF kind = "account" THEN accountLines(it)
    ELSE <<itemHeading(kind, it)>>
         \o (IF <<kind, "Description">> \in TruncatedAttributes
             THEN attributeLines(kind, "Description", it.Description)
             ELSE <<>>)
         \o <<<<>>>>

RECURSIVE itemsLines(_, _)
itemsLines(kind, items) ==
    IF items = <<>> THEN <<>>
    ELSE itemLines(kind, Head(items)) \o itemsLines(kind, Tail(items))

\* A renderer that writes the section of a kind, whichever it is, only when
\* the collection has an item.
sectionLinesWhenNotEmpty(kind, items) ==
    IF items = <<>> THEN <<>>
    ELSE << <<"## ", sectionTitle(kind), " (">> \o Itoa(Len(items)) \o <<")">>, <<>> >>
         \o itemsLines(kind, items)

\* The section of a kind: its heading with the count, a blank line and the
\* items.  For agreements, IP networks, documents, accounts, facilities,
\* cabinets and configurations all of it stands inside if len(...) > 0.
sectionLines(kind, items) ==
    IF kind \notin UnguardedKinds /\ Len(items) = 0 THEN <<>>
    ELSE << <<"## ", sectionTitle(kind), " (">> \o Itoa(Len(items)) \o <<")">>, <<>> >>
         \o itemsLines(kind, items)

\* The summary line from the i-th kind on, and the sections from it on.
RECURSIVE summaryFrom(_, _)
summaryFrom(s, i) ==
    IF i > Len(EntityKinds) THEN <<>>
    ELSE Itoa(Len(s[EntityKinds[i]])) \o <<summaryWord(EntityKinds[i])>>
         \o (IF i < Len(EntityKinds) THEN <<" . ">> ELSE <<>>)
         \o summaryFrom(s, i + 1)

RECURSIVE sectionsFrom(_, _)
sectionsFrom(s, i) ==
    IF i > Len(EntityKinds) THEN <<>>
    ELSE sectionLines(EntityKinds[i], s[EntityKinds[i]]) \o sectionsFrom(s, i + 1)

\* buildMarkdown(s) as a text: the title, the stamp, the summary, the rule
\* and the sections; s maps a kind to its collection.  The text ends with a
\* newline, hence the last empty line.
snapshotMarkdown(GeneratedAt, s) ==
    << <<"# ITPortal Documentation Snapshot">>, <<>>,
       <<"_Generated: ">> \o Itoa(GeneratedAt) \o <<" UTC_">>, <<>>,
       <<"**Summary:** ">> \o summaryFrom(s, 1), <<>>,
       <<"---">>, <<>> >>
    \o sectionsFrom(s, 1)
    \o << <<>> >>

\* The collections rendered: a kind has no item or up to MaxItems items, each
\* with a name and a description of its own kind that begin with "x".
MaxItems == 1
kindLetter(kind) ==
    LET i == CHOOSE j \in 1..Len(EntityKinds) : EntityKinds[j] = kind
    IN  <<"a", "b", "c", "d", "e", "f", "g", "h", "i", "j", "k", "l">>[i]
itemsOf(kind, n) ==
    [i \in 1..n |->
        IF kind = "account"
        THEN Account(<<>>, <<"x", kindLetter(kind)>>, <<"p">>, <<>>, <<>>)
        ELSE Item(i, <<"x", kindLetter(kind)>>, <<"x", kindLetter(kind)>>)]
Collections ==
    {[k \in KindSet |-> IF k \in some THEN itemsOf(k, n) ELSE <<>>] :
        some \in SUBSET KindSet, n \in 1..MaxItems}

\* The entity types and the queries search_docs is called with.
EntityTypeFilters == KindSet \union {"", "knowledge_base", "nosuch"}
DocQueries == {<<"x">>, <<"X", "i">>}

InitRender ==
    /\ doc = DocIdle
    /\ la = LaIdle
    /\ mcp = McpIdle
    /\ cl = ClIdle
    /\ auth = AuthIdle
    /\ tr = TrIdle
    /\ tc = TcIdle
    /\ InitCache

\* build renders the snapshot it has assembled.
BuildMarkdown ==
    /\ doc.op = "none"
    /\ \E s \in Collections :
          doc' = [op |-> "built", s |-> s, markdown |-> snapshotMarkdown(now, s)]
    /\ UNCHANGED <<la, mcp, cl, auth, tr, tc, cacheVars>>

\* SearchDocs with a query that is not empty, on the snapshot rendered.
SearchDocsIn ==
    /\ doc.op = "built"
    /\ \E query \in DocQueries, entityType \in EntityTypeFilters :
          doc' = [op |-> "searched", s |-> doc.s, markdown |-> doc.markdown,
                  query |-> query, entityType |-> entityType,
                  out |-> searchDocsText(doc.markdown, query, entityType,
                                         doc.s["account"])]
    /\ UNCHANGED <<la, mcp, cl, auth, tr, tc, cacheVars>>

NextRender ==
    \/ BuildMarkdown
    \/ SearchDocsIn

SpecRender == InitRender /\ [][NextRender]_vars

InitTruncate ==
    /\ tr = TrIdle
    /\ la = LaIdle
    /\ mcp = McpIdle
    /\ cl = ClIdle
    /\ auth = AuthIdle
    /\ doc = DocIdle
    /\ tc = TcIdle
    /\ InitCache

\* One call truncate(s, max).
Truncate ==
    /\ tr.op = "none"
    /\ \E s \in Texts, max \in 0..MaxCap :
          tr' = [op |-> "truncate", s |-> s, max |-> max, out |-> truncate(s, max)]
    /\ UNCHANGED <<la, mcp, cl, auth, doc, tc, cacheVars>>

\* buildMarkdown renders one attribute of one item.
RenderAttribute ==
    /\ tr.op = "none"
    /\ \E a \in TruncatedAttributes, n \in ValueLengths, tagged \in BOOLEAN :
          LET v == IF tagged /\ n > 0 THEN TaggedValue(n) ELSE PlainValue(n)
          IN  tr' = [op |-> "attribute", kind |-> a[1], attr |-> a[2], n |-> n,
                     s |-> v, out |-> attributeLines(a[1], a[2], v)]
    /\ UNCHANGED <<la, mcp, cl, auth, doc, tc, cacheVars>>

NextTruncate ==
    \/ Truncate
    \/ RenderAttribute

SpecTruncate == InitTruncate /\ [][NextTruncate]_vars

\* --------------------------------------------------------- the tool handlers
\* What a handler returns, as <<kind, text>> with text a sequence of lines:
\* toolText(text), a result whose IsError is false.
toolText(text) == <<"text", text>>
\* toolError(msg), a result whose IsError is true.
toolError(msg) == <<"toolError", <<msg>>>>
\* return nil, nil, fmt.Errorf(msg + ": %w", err)
goError(msg) == <<"error", <<msg>>>>

\* The handler made no call of h.client.
NoCalls == <<>>
\* One call of h.client: the method and what it is called with.
ClientCall(method, arg) == <<method, arg>>
Methods(sent) == [i \in 1..Len(sent) |-> sent[i][1]]

\* The labels of the cases of the handlers' switches on the entity type, as
\* strings of characters.
caseLabel(word) ==
    CASE word = "company" -> <<"c", "o", "m", "p", "a", "n", "y">>
      [] word = "site" -> <<"s", "i", "t", "e">>
      [] word = "device" -> <<"d", "e", "v", "i", "c", "e">>
      [] word = "kb" -> <<"k", "b">>
      [] word = "knowledgebase" -> <<"k", "n", "o", "w", "l", "e", "d", "g", "e", "b", "a", "s", "e">>
      [] word = "contact" -> <<"c", "o", "n", "t", "a", "c", "t">>
      [] word = "account" -> <<"a", "c", "c", "o", "u", "n", "t">>
      [] word = "agreement" -> <<"a", "g", "r", "e", "e", "m", "e", "n", "t">>
      [] word = "document" -> <<"d", "o", "c", "u", "m", "e", "n", "t">>
      [] word = "facility" -> <<"f", "a", "c", "i", "l", "i", "t", "y">>
      [] word = "cabinet" -> <<"c", "a", "b", "i", "n", "e", "t">>
      [] word = "configuration" -> <<"c", "o", "n", "f", "i", "g", "u", "r", "a", "t", "i", "o", "n">>
      [] word = "ipnetwork" -> <<"i", "p", "n", "e", "t", "w", "o", "r", "k">>
      [] word = "additionalcredential" -> <<"a", "d", "d", "i", "t", "i", "o", "n", "a", "l", "c", "r", "e", "d", "e", "n", "t", "i", "a", "l">>
      [] word = "template" -> <<"t", "e", "m", "p", "l", "a", "t", "e">>
      [] word = "kbcategory" -> <<"k", "b", "c", "a", "t", "e", "g", "o", "r", "y">>
      [] word = "devicetype" -> <<"d", "e", "v", "i", "c", "e", "t", "y", "p", "e">>
      [] word = "deviceconfig" -> <<"d", "e", "v", "i", "c", "e", "c", "o", "n", "f", "i", "g">>
      [] word = "contactphoto" -> <<"c", "o", "n", "t", "a", "c", "t", "p", "h", "o", "t", "o">>
      [] word = "documentfile" -> <<"d", "o", "c", "u", "m", "e", "n", "t", "f", "i", "l", "e">>
      [] word = "agreementfile" -> <<"a", "g", "r", "e", "e", "m", "e", "n", "t", "f", "i", "l", "e">>

\* strings.ToLower(strings.ReplaceAll(input.EntityType, "_", ""))
normalizeType(entityType) == LowerLine(ReplaceAll(entityType, <<"_">>, <<>>))

\* The cases of CreateEntity's switch.
createTypes ==
    {caseLabel(w) : w \in {"company", "site", "contact", "account",
                             "agreement", "document", "ipnetwork",
                             "facility", "cabinet", "configuration"}}

\* The cases of UpdateEntity's switch.
updateTypes ==
    {caseLabel(w) : w \in {"company", "site", "device", "kb",
                             "knowledgebase", "contact", "account",
                             "agreement", "document", "facility", "cabinet",
                             "configuration", "ipnetwork",
                             "additionalcredential"}}

\* The cases of ListEntities' switch that call listPage with opts, and the
\* two that call listAll without them.
pagedListTypes ==
    {caseLabel(w) : w \in {"company", "site", "device", "kb",
                             "knowledgebase", "contact", "account",
                             "agreement", "document", "facility", "cabinet",
                             "configuration", "ipnetwork", "template"}}
wholeListTypes == {caseLabel("kbcategory"), caseLabel("devicetype")}

\* UploadFile's switch: the path of the upload, "" in the default case.
uploadPathOf(key) ==
    CASE key = caseLabel("deviceconfig") -> "/api/2.0/devices/%s/configurationFiles/"
      [] key = caseLabel("kb") -> "/api/2.0/kbs/%s/file/"
      [] key = caseLabel("contactphoto") -> "/api/2.0/contacts/%s/file/"
      [] key = caseLabel("documentfile") -> "/api/2.0/documents/%s/file/"
      [] key = caseLabel("agreementfile") -> "/api/2.0/agreements/%s/file/"
      [] OTHER -> ""

\* encoding/base64 on the characters of the model's payloads: "A" is in the
\* alphabet of both encodings, "+" in StdEncoding's only, "-" in
\* URLEncoding's only, "=" is the padding and "!" is in neither.
StdAlphabet == {"A", "+"}
URLAlphabet == {"A", "-"}
PadChar == "="

\* The padding characters a payload ends with.
TrailingPads(s) ==
    Cardinality({k \in 1..Len(s) : \A i \in k..Len(s) : s[i] = PadChar})

\* (*Encoding).DecodeString of a padded encoding, as <<ok, len(decoded)>>:
\* the payload is made of quanta of four characters, the last of which may
\* end with one or two padding characters.
DecodeString(alphabet, s) ==
    LET pads == TrailingPads(s)
        ok == /\ Len(s) % 4 = 0
              /\ pads <= 2
              /\ \A i \in 1..(Len(s) - pads) : s[i] \in alphabet
    IN  IF ok THEN <<TRUE, 3 * (Len(s) \div 4) - pads>> ELSE <<FALSE, 0>>

\* json.Unmarshal(fieldsJSON, target): fields is a sequence of <<key, kind>>
\* and every entity type decodes "name" into a string.
unmarshalFields(fields) ==
    \A i \in 1..Len(fields) : fields[i][1] = "name" => fields[i][2] = "string"

\* Each handler below is given its input and the set of client methods that
\* return an error, and gives <<sent, result>>: the calls of h.client it
\* made, in order, and what it returned.

\* Handler.CreateKBArticle
createKBArticle(input, fails) ==
    IF input.CompanyID = 0 THEN <<NoCalls, toolError("company_id is required")>>
    ELSE IF input.Name = "" THEN <<NoCalls, toolError("name is required")>>
    ELSE LET sent == <<ClientCall("CreateKB", input.Name)>>
         IN  IF "CreateKB" \in fails THEN <<sent, goError("create KB article")>>
             ELSE <<sent, toolText(<<"KB article created successfully.">>)>>

\* The sub-steps of CreateDevice after the device is created, each as
\* <<call, line>>: the IP, the management URL and the initial note, each
\* only for an input that is not empty.
deviceSubSteps(input, fails) ==
    LET step(method, arg, failed, added) ==
            << <<ClientCall(method, arg),
                 IF method \in fails THEN failed ELSE added>> >>
        title == IF input.ManagementTitle = "" THEN "Management Interface"
                 ELSE input.ManagementTitle
    IN  (IF input.IPAddress # ""
         THEN step("AddDeviceIP", input.IPAddress,
                   "Could not add IP", "IP added")
         ELSE <<>>)
        \o (IF input.ManagementURL # ""
            THEN step("AddDeviceManagementURL", title,
                      "Could not add management URL", "Management URL added")
            ELSE <<>>)
        \o (IF input.InitialNote # ""
            THEN step("AddDeviceNote", input.InitialNote,
                      "Could not add note", "Initial note added")
            ELSE <<>>)

\* A CreateDevice that gives up at the first sub-step that fails.
createDeviceStopsAtFailure(input, fails) ==
    IF input.CompanyID = 0 THEN <<NoCalls, toolError("company_id is required")>>
    ELSE IF input.Name = "" THEN <<NoCalls, toolError("name is required")>>
    ELSE LET create == <<ClientCall("CreateDevice", input.Name)>>
             steps == deviceSubSteps(input, fails)
             bad == {i \in 1..Len(steps) : steps[i][1][1] \in fails}
             done == IF bad = {} THEN Len(steps)
                     ELSE CHOOSE i \in bad : \A j \in bad : i <= j
         IN  IF "CreateDevice" \in fails THEN <<create, goError("create device")>>
             ELSE <<create \o [i \in 1..done |-> steps[i][1]],
                    IF bad = {}
                    THEN toolText(<<"Device created successfully.">>
                                  \o [i \in 1..done |-> steps[i][2]])
                    ELSE goError("create device")>>

\* Handler.CreateDevice
createDevice(input, fails) ==
    IF input.CompanyID = 0 THEN <<NoCalls, toolError("company_id is required")>>
    ELSE IF input.Name = "" THEN <<NoCalls, toolError("name is required")>>
    ELSE LET create == <<ClientCall("CreateDevice", input.Name)>>
             steps == deviceSubSteps(input, fails)
         IN  IF "CreateDevice" \in fails THEN <<create, goError("create device")>>
             ELSE <<create \o [i \in 1..Len(steps) |-> steps[i][1]],
                    toolText(<<"Device created successfully.">>
                             \o [i \in 1..Len(steps) |-> steps[i][2]])>>

\* Handler.CreateEntity
createEntity(input, fails) ==
    IF input.EntityType = <<>> THEN <<NoCalls, toolError("entity_type is required")>>
    ELSE IF Len(input.Fields) = 0 THEN <<NoCalls, toolError("fields must not be empty")>>
    ELSE IF normalizeType(input.EntityType) \notin createTypes
    THEN <<NoCalls, toolError("entity_type is not supported for create_entity")>>
    ELSE IF ~unmarshalFields(input.Fields)
    THEN <<NoCalls, toolError("invalid fields")>>
    ELSE LET sent == <<ClientCall("Create", normalizeType(input.EntityType))>>
         IN  IF "Create" \in fails THEN <<sent, goError("create")>>
             ELSE <<sent, toolText(<<"created.">>)>>

\* An UpdateEntity that looks at the fields only after the service has been
\* called.
updateEntityChecksFieldsLate(input, fails) ==
    IF input.ID = "" THEN <<NoCalls, toolError("id is required")>>
    ELSE IF normalizeType(input.EntityType) \notin updateTypes
    THEN <<NoCalls, toolError("unknown entity_type for update")>>
    ELSE LET sent == <<ClientCall("Update", normalizeType(input.EntityType))>>
         IN  IF Len(input.Fields) = 0 THEN <<sent, toolError("fields must not be empty")>>
             ELSE IF "Update" \in fails THEN <<sent, goError("update")>>
             ELSE <<sent, toolText(<<"updated successfully.">>)>>

\* Handler.UpdateEntity
updateEntity(input, fails) ==
    IF input.ID = "" THEN <<NoCalls, toolError("id is required")>>
    ELSE IF Len(input.Fields) = 0 THEN <<NoCalls, toolError("fields must not be empty")>>
    ELSE IF normalizeType(input.EntityType) \notin updateTypes
    THEN <<NoCalls, toolError("unknown entity_type for update")>>
    ELSE LET sent == <<ClientCall("Update", normalizeType(input.EntityType))>>
         IN  IF "Update" \in fails THEN <<sent, goError("update")>>
             ELSE <<sent, toolText(<<"updated successfully.">>)>>

\* Handler.AddDeviceIP
addDeviceIP(input, fails) ==
    IF input.DeviceID = "" THEN <<NoCalls, toolError("device_id is required")>>
    ELSE IF input.IP = "" THEN <<NoCalls, toolError("ip is required")>>
    ELSE LET sent == <<ClientCall("AddDeviceIP", input.IP)>>
         IN  IF "AddDeviceIP" \in fails THEN <<sent, goError("add device IP")>>
             ELSE <<sent, toolText(<<"IP added to device.">>)>>

\* Handler.AddDeviceNote
addDeviceNote(input, fails) ==
    IF input.DeviceID = "" THEN <<NoCalls, toolError("device_id is required")>>
    ELSE IF input.Notes = "" THEN <<NoCalls, toolError("notes must not be empty")>>
    ELSE LET sent == <<ClientCall("AddDeviceNote", input.Notes)>>
         IN  IF "AddDeviceNote" \in fails THEN <<sent, goError("add device note")>>
             ELSE <<sent, toolText(<<"Note added to device.">>)>>

\* Handler.UploadFile: the payload is decoded as StdEncoding and, when that
\* fails, as URLEncoding.
uploadFile(input, fails) ==
    IF input.EntityID = "" THEN <<NoCalls, toolError("entity_id is required")>>
    ELSE IF input.FileName = "" THEN <<NoCalls, toolError("file_name is required")>>
    ELSE IF input.Base64Data = <<>> THEN <<NoCalls, toolError("base64_data is required")>>
    ELSE LET std == DecodeString(StdAlphabet, input.Base64Data)
             url == DecodeString(URLAlphabet, input.Base64Data)
             path == uploadPathOf(normalizeType(input.EntityType))
         IN  IF ~std[1] /\ ~url[1]
             THEN <<NoCalls, toolError("base64_data is not valid base64")>>
             ELSE IF path = ""
             THEN <<NoCalls, toolError("unknown entity_type for upload")>>
             ELSE LET fileData == IF std[1] THEN std[2] ELSE url[2]
                      sent == <<ClientCall("UploadFile", path)>>
                  IN  IF "UploadFile" \in fails
                      THEN <<sent, goError("upload file")>>
                      ELSE <<sent, toolText(<<"File uploaded.">> \o Itoa(fileData))>>

\* if input.Limit <= 0 { input.Limit = 50 }
defaultLimit == 50
\* if input.Limit > 500 { input.Limit = 500 }
maxLimit == 500
\* The maxItems ListKBCategories and ListDeviceTypes hand to listAll.
referenceMaxItems == 500

\* input.Limit after the two ifs at the head of ListEntities.
clampLimit(limit) ==
    LET l == IF limit <= 0 THEN defaultLimit ELSE limit
    IN  IF l > maxLimit THEN maxLimit ELSE l

\* The page requests of a listAll call with nil options that runs to its
\* end from st against coll.
RECURSIVE listAllRequests(_, _, _)
listAllRequests(st, coll, maxItems) ==
    IF st.done THEN <<>>
    ELSE <<ClientCall("listPage", PageRequest(<<>>, st.offset).query)>>
         \o listAllRequests(listAllIter(st, coll, maxItems), coll, maxItems)

\* toolText(string(out)) for out the JSON of v.
toolJSON(v) == <<"text", v>>

\* h.client.ListKBCategories(ctx), h.client.ListDeviceTypes(ctx): listAll
\* with nil options and maxItems 500, as <<sent, len(v), total, ok>>; the
\* options of the handler are not handed over.
listWhole(opts, coll, fails) ==
    LET st == listAllRun(listAllStart, coll, referenceMaxItems)
        sent == listAllRequests(listAllStart, coll, referenceMaxItems)
    IN  IF "listPage" \in fails THEN <<SubSeq(sent, 1, 1), 0, 0, FALSE>>
        ELSE <<sent, Count(st.all), Count(st.all), TRUE>>

\* h.client.ListCompanies(ctx, opts) and the like: one listPage with the
\* options of the handler.
listPaged(opts, coll, fails) ==
    LET q == toQuery(<<opts>>)
        sent == <<ClientCall("listPage", q)>>
        page == listPage(coll, QueryLimit(q), QueryOffset(q))
    IN  IF "listPage" \in fails THEN <<sent, 0, 0, FALSE>>
        ELSE <<sent, page.items.len, page.total, TRUE>>

\* Handler.ListEntities against a service whose collection is coll.
listEntities(input, coll, fails) ==
    LET Limit == clampLimit(input.Limit)
        opts == [Limit |-> Limit, Offset |-> input.Offset, Name |-> ""]
        key == normalizeType(input.EntityType)
        answer(r) ==
            IF ~r[4] THEN <<r[1], goError("list")>>
            ELSE <<r[1], toolJSON([Total |-> r[3], Offset |-> input.Offset,
                                   Limit |-> Limit, Items |-> r[2]])>>
    IN  IF key \in pagedListTypes THEN answer(listPaged(opts, coll, fails))
        ELSE IF key \in wholeListTypes THEN answer(listWhole(opts, coll, fails))
        ELSE <<NoCalls, toolError("unknown entity_type")>>

\* ------------------------------------------------- the handler specification
\* One tool call against a service whose client methods fail as they like.
LimitSlack == 1
Limits ==
    UNION {(v - LimitSlack)..(v + LimitSlack) : v \in {0, defaultLimit, maxLimit}}
MaxOffset == 1
FieldSets == {<<>>, << <<"name", "string">> >>, << <<"name", "number">> >>}
Payloads ==
    {<<>>, <<"A", "A", "A", "A">>, <<"A", "A", "=", "=">>, <<"A", "+", "A", "=">>,
     <<"A", "-", "A", "=">>, <<"A", "+", "-", "A">>, <<"A", "=", "=", "=">>,
     <<"A", "A", "A">>, <<"!", "A", "A", "A">>}
\* Entity types as a caller writes them.
UnknownType == <<"x">>
CallerTypes ==
    {<<>>, UnknownType, caseLabel("site"), <<"K", "B">>,
     <<"i", "p", "_", "n", "e", "t", "w", "o", "r", "k">>,
     <<"k", "b", "_", "c", "a", "t", "e", "g", "o", "r", "y">>,
     caseLabel("devicetype"),
     <<"d", "e", "v", "i", "c", "e", "_", "c", "o", "n", "f", "i", "g">>}

InitTools ==
    /\ tc = TcIdle
    /\ tr = TrIdle
    /\ la = LaIdle
    /\ mcp = McpIdle
    /\ cl = ClIdle
    /\ auth = AuthIdle
    /\ doc = DocIdle
    /\ InitCache

\* The call of tool with input, answered by the handler's <<sent, result>>.
Called(tool, input, fails, r) ==
    [op |-> tool, input |-> input, fails |-> fails, sent |-> r[1], result |-> r[2]]

CallCreateKBArticle ==
    /\ tc.op = "none"
    /\ \E CompanyID \in {0, 7}, Name \in {"", "n"}, fails \in SUBSET {"CreateKB"} :
           LET input == [CompanyID |-> CompanyID, Name |-> Name]
           IN  tc' = Called("create_kb_article", input, fails, createKBArticle(input, fails))
    /\ UNCHANGED <<la, mcp, cl, auth, tr, doc, cacheVars>>

CallCreateDevice ==
    /\ tc.op = "none"
    /\ \E CompanyID \in {0, 7}, Name \in {"", "d"}, IPAddress \in {"", "10.0.0.1"},
          ManagementURL \in {"", "https://d"}, ManagementTitle \in {"", "t"},
          InitialNote \in {"", "n"},
          fails \in SUBSET {"CreateDevice", "AddDeviceIP",
                            "AddDeviceManagementURL", "AddDeviceNote"} :
           LET input == [CompanyID |-> CompanyID, Name |-> Name,
                         IPAddress |-> IPAddress, ManagementURL |-> ManagementURL,
                         ManagementTitle |-> ManagementTitle,
                         InitialNote |-> InitialNote]
           IN  tc' = Called("create_device", input, fails, createDevice(input, fails))
    /\ UNCHANGED <<la, mcp, cl, auth, tr, doc, cacheVars>>

CallCreateEntity ==
    /\ tc.op = "none"
    /\ \E EntityType \in CallerTypes, Fields \in FieldSets, fails \in SUBSET {"Create"} :
           LET input == [EntityType |-> EntityType, Fields |-> Fields]
           IN  tc' = Called("create_entity", input, fails, createEntity(input, fails))
    /\ UNCHANGED <<la, mcp, cl, auth, tr, doc, cacheVars>>

CallUpdateEntity ==
    /\ tc.op = "none"
    /\ \E EntityType \in CallerTypes, ID \in {"", "7"}, Fields \in FieldSets,
          fails \in SUBSET {"Update"} :
           LET input == [EntityType |-> EntityType, ID |-> ID, Fields |-> Fields]
           IN  tc' = Called("update_entity", input, fails, updateEntity(input, fails))
    /\ UNCHANGED <<la, mcp, cl, auth, tr, doc, cacheVars>>

CallAddDeviceIP ==
    /\ tc.op = "none"
    /\ \E DeviceID \in {"", "7"}, IP \in {"", "10.0.0.1"}, fails \in SUBSET {"AddDeviceIP"} :
           LET input == [DeviceID |-> DeviceID, IP |-> IP]
           IN  tc' = Called("add_device_ip", input, fails, addDeviceIP(input, fails))
    /\ UNCHANGED <<la, mcp, cl, auth, tr, doc, cacheVars>>

CallAddDeviceNote ==
    /\ tc.op = "none"
    /\ \E DeviceID \in {"", "7"}, Notes \in {"", "n"}, fails \in SUBSET {"AddDeviceNote"} :
           LET input == [DeviceID |-> DeviceID, Notes |-> Notes]
           IN  tc' = Called("add_device_note", input, fails, addDeviceNote(input, fails))
    /\ UNCHANGED <<la, mcp, cl, auth, tr, doc, cacheVars>>

CallUploadFile ==
    /\ tc.op = "none"
    /\ \E EntityType \in CallerTypes, EntityID \in {"", "7"}, FileName \in {"", "f"},
          Base64Data \in Payloads, fails \in SUBSET {"UploadFile"} :
           LET input == [EntityType |-> EntityType, EntityID |-> EntityID,
                         FileName |-> FileName, Base64Data |-> Base64Data]
           IN  tc' = Called("upload_file", input, fails, uploadFile(input, fails))
    /\ UNCHANGED <<la, mcp, cl, auth, tr, doc, cacheVars>>

\* list_entities against a collection of n records.
CallListEntities ==
    /\ tc.op = "none"
    /\ \E EntityType \in CallerTypes, Limit \in Limits, Offset \in 0..MaxOffset,
          n \in Sizes, fails \in SUBSET {"listPage"} :
           LET input == [EntityType |-> EntityType, Limit |-> Limit,
                         Offset |-> Offset, n |-> n]
           IN  tc' = Called("list_entities", input, fails,
                        listEntities(input, [ver |-> 0, n |-> n], fails))
    /\ UNCHANGED <<la, mcp, cl, auth, tr, doc, cacheVars>>

NextTools ==
    \/ CallCreateKBArticle
    \/ CallCreateDevice
    \/ CallCreateEntity
    \/ CallUpdateEntity
    \/ CallAddDeviceIP
    \/ CallAddDeviceNote
    \/ CallUploadFile
    \/ CallListEntities

SpecTools == InitTools /\ [][NextTools]_vars

\* ================================================================ claims
Published == Range(storeLog)
PostNew == mainpc \in {"newok", "bgstarted", "serve", "stopped"}

\* C1: whatever the interleaving of Get with the builds of New, Refresh and
\* the background loop, the snapshot a Get returned (and the one a Get would
\* return now) is exactly one snapshot as a single completed build returned
\* it: collections, GeneratedAt and Markdown together, and it was stored.
C1_GetReturnsWholeSnapshot ==
    \A p \in {got, current} \ {NULL} :
        /\ p \in Published
        /\ heap[p] = built[p].snap
        /\ heap[p].Markdown = buildMarkdown(heap[p].GeneratedAt, heap[p].data)

\* A handler holds a snapshot that has been replaced while another build is
\* fetching.
C1_Witness ==
    /\ got # NULL
    /\ got # current
    /\ \E b \in Builders : pc[b] = "fetch" /\ \E k \in Kinds : task[b][k].status = "ok"

\* C2: a build of Refresh or of the background loop in which a fetch failed
\* stores nothing: no step of that builder changes the published pointer,
\* allocates or touches a snapshot, and Refresh returns nil with the error.
C2_FailedBuildStoresNothing ==
    [][\A b \in Builders \ {InitB} :
          (egErr[b] # NoErr /\ pc'[b] # pc[b]) =>
              /\ current' = current
              /\ heap' = heap
              /\ storeLog' = storeLog
              /\ (b \in Refreshers /\ pc'[b] = "idle") =>
                     ret'[b] = [snap |-> NULL, err |-> egErr[b]]]_vars

\* A Refresh has returned an error while a snapshot is published.
C2_Witness ==
    \E r \in Refreshers :
        /\ pc[r] = "idle"
        /\ ret[r].snap = NULL
        /\ ret[r].err.cause = "remote"
        /\ current # NULL

\* C3: once New has returned the cache, the slot always holds a snapshot.
C3_NeverNilAfterNew ==
    PostNew => (current # NULL /\ current \in 1..Len(heap))

\* A handler reads the cache after a Refresh has failed.
C3_Witness ==
    /\ mainpc = "serve"
    /\ got # NULL
    /\ \E r \in Refreshers : ret[r].err # NoErr

\* C4: a Get returns the pointer of the latest Store, which is none of the
\* pointers stored before it.
C4_GetReturnsLatestStore ==
    [][(got = NULL /\ got' # NULL) =>
          /\ storeLog' # <<>>
          /\ got' = Last(storeLog')
          /\ \A i \in 1..(Len(storeLog') - 1) : storeLog'[i] # got']_vars

\* A Get has returned the third snapshot stored.
C4_Witness ==
    /\ Len(storeLog) = 3
    /\ got = Last(storeLog)

\* C5: the store of a finished build is unconditional: whichever build
\* stores, its snapshot becomes the published one, whatever the age of the
\* snapshot it replaces.
C5_LastStoreWins ==
    [][\A b \in Builders :
          (pc[b] = "built" /\ pc'[b] = "idle") => current' = result[b]]_vars

\* The published snapshot is older than one published before it.
C5_Witness ==
    \E i \in 1..Len(storeLog) :
        /\ i < Len(storeLog)
        /\ current = Last(storeLog)
        /\ heap[current].GeneratedAt < heap[storeLog[i]].GeneratedAt

\* C6: every published snapshot equals, kind by kind, what listAll holds of
\* the remote service as it was at one instant between the start and the end
\* of the snapshot's build.
C6_PointInTimeView ==
    \A p \in Published :
        \E i \in built[p].from..built[p].to :
            \A k \in Kinds :
                heap[p].data[k] = listAllRun(listAllStart, hist[i][k], limitPerEntity).all

\* C7: the background loop runs and requests are served only once the
\* initial build's snapshot is stored; after a failed initial build the
\* process has exited without the loop and without a request served.
C7_ServeOnlyAfterInitialBuild ==
    /\ (bg # "off" \/ served \/ mainpc = "serve") =>
           /\ current # NULL
           /\ storeLog # <<>>
           /\ built[storeLog[1]].by = InitB
    /\ mainpc = "exit1" => (bg = "off" /\ ~served /\ current = NULL)

\* The server is serving with the loop started.
C7_Witness ==
    /\ mainpc = "serve"
    /\ bg = "loop"
    /\ served

\* C8: listAll returns exactly min(T, maxItems) records.
C8_ListAllReturnsMin ==
    la.pc = "returned" => Count(la.st.all) = Min(la.T, la.maxItems)

\* C9 as stated: listAll issues exactly ceil(min(T, maxItems)/P) requests.
C9_PageRequests ==
    la.pc = "returned" =>
        la.st.requests = CeilDiv(Min(la.T, la.maxItems), pageSize)

\* C9 as amended: listAll issues ceil(min(T, maxItems)/P) page requests, and
\* one request when the service declares no record.
C9_PageRequestsAtLeastOne ==
    la.pc = "returned" =>
        la.st.requests = Max(1, CeilDiv(Min(la.T, la.maxItems), pageSize))

\* A call that stopped on its budget, which is no multiple of the page size.
C9_Witness ==
    /\ la.pc = "returned"
    /\ la.st.requests = 2
    /\ la.T > la.maxItems
    /\ la.maxItems % pageSize # 0

\* C10: a published snapshot holds at most SNAPSHOT_LIMIT_PER_ENTITY records
\* of each kind.
C10_SnapshotWithinLimit ==
    \A p \in Published : \A k \in Kinds : Count(heap[p].data[k]) <= limitPerEntity

\* C11: whatever the remote service answers (inconsistent totals, short or
\* empty pages, errors), listAll stops as soon as the accumulated count
\* reaches the declared total or maxItems or a page is empty, and it never
\* issues more than max(1, maxItems) page requests: while the loop goes on
\* the requests issued are still below that number.  (A call whose page
\* request failed has returned, whatever the pages before it were.)
C11_ListAllTerminates ==
    /\ la.st.requests <= Max(1, la.maxItems)
    /\ (la.pc = "loop" /\ ~la.st.done) => la.st.requests < Max(1, la.maxItems)
    /\ (la.st.requests >= 1 /\ la.pc # "failed") =>
           (la.st.done <=> \/ la.st.offset >= la.last.total
                           \/ la.st.offset >= la.maxItems
                           \/ la.last.n = 0)

\* A call that spent its whole budget of requests on one-item pages of a
\* service declaring more records than it delivered.
C11_Witness ==
    /\ la.pc = "returned"
    /\ la.maxItems = MaxAnyBudget
    /\ la.st.requests = la.maxItems
    /\ la.last.total > la.st.offset

\* The string v occurs in a line of the text.
Occurs(v, text) == \E i \in 1..Len(text) : Contains(text[i], v)
\* The password and the 2FA code of account ac that are set.
Secrets(ac) == {ac.Password, ac.TwoFACode} \ {<<>>}
\* Two accounts that differ in nothing but the password and the 2FA code.
LowEqual(a, b) ==
    [a EXCEPT !.Password = <<>>, !.TwoFACode = <<>>]
        = [b EXCEPT !.Password = <<>>, !.TwoFACode = <<>>]

\* C12: the rendered Markdown does not depend on the Password and TwoFACode
\* of the accounts: two account lists that differ in those fields only
\* render to the same text, in which neither value occurs, and that text is
\* what the snapshot resource answers.
C12_MarkdownIgnoresSecrets ==
    LowEqual(mcp.ac, mcp.twin) =>
        /\ accountsMarkdown(<<mcp.ac>>) = accountsMarkdown(<<mcp.twin>>)
        /\ \A v \in Secrets(mcp.ac) : ~Occurs(v, accountsMarkdown(<<mcp.ac>>))
        /\ mcp.tool = "snapshot" =>
               /\ mcp.out = accountsMarkdown(<<mcp.ac>>)
               /\ mcp.out = mcp.outTwin

\* The snapshot of an account with a password and a 2FA code has been read,
\* next to that of its twin with other ones; the username is in the text.
C12_Witness ==
    /\ mcp.tool = "snapshot"
    /\ mcp.ac.Password # <<>> /\ mcp.twin.Password # <<>>
    /\ mcp.ac.Password # mcp.twin.Password
    /\ mcp.ac.TwoFACode # <<>> /\ mcp.ac.TwoFACode # mcp.twin.TwoFACode
    /\ mcp.ac.Username # <<>>
    /\ Occurs(mcp.ac.Username, mcp.out)
    /\ Occurs(<<"d">>, mcp.out)

\* C13: no resource and no tool but get_entity_details answers with the
\* password or the 2FA code of an account: what any other call answers is
\* the same for two services whose accounts differ in those fields only.
C13_SecretsOnlyInDetails ==
    (LowEqual(mcp.ac, mcp.twin) /\ mcp.tool \notin {"none", "get_entity_details"})
        => mcp.out = mcp.outTwin

\* C14: a failed background build neither stops the loop nor ends the
\* process: as long as the shutdown context is not cancelled, the goroutine
\* is in its loop, a tick starts a new build whenever the loop is at its
\* select, and a build that returned a snapshot stores it.
C14_LoopSurvivesFailedBuild ==
    ((\E i \in 1..Len(failLog) : failLog[i].by = BgB) /\ ~shutdown) =>
        /\ Running
        /\ bg = "loop"
        /\ (pc[BgB] = "idle" /\ builds < MaxBuilds) => ENABLED BgTick
        /\ pc[BgB] = "built" => ENABLED BgStore

\* After a background build failed, a later background build has replaced
\* the published snapshot.
C14_Witness ==
    /\ ~shutdown
    /\ bg = "loop"
    /\ current # NULL
    /\ current = Last(storeLog)
    /\ built[current].by = BgB
    /\ \E i \in 1..Len(failLog) :
          failLog[i].by = BgB /\ failLog[i].stores < Len(storeLog)

\* A background build that has fetched a page, so it began before any
\* shutdown signal, and that has tasks still fetching.
BgBuildUnderWay ==
    /\ pc[BgB] = "fetch"
    /\ \E k \in Kinds : task[BgB][k].st.requests >= 1
    /\ \E k \in Kinds : task[BgB][k].status = "run"

\* C15 as stated: the shutdown signal does not cancel a background build in
\* progress: the context of such a build is cancelled by nothing but a
\* failed fetch of its own or its deadline.
C15_BuildOutlivesShutdown ==
    (shutdown /\ BgBuildUnderWay) =>
        (ctxErr[BgB] = "canceled" => egErr[BgB].cause = "remote")

\* C15 as amended: the shutdown signal cancels a background build in
\* progress: once the signal has arrived the build's context is done, no
\* task of it obtains a further page, and each task still fetching returns
\* the context's error, which makes the build fail.
C15_ShutdownCancelsBuild ==
    (shutdown /\ pc[BgB] = "fetch") =>
        /\ ctxErr[BgB] # "nil"
        /\ \A k \in Kinds :
              /\ ~ENABLED FetchPage(BgB, k)
              /\ (Running /\ task[BgB][k].status = "run") =>
                     ENABLED FetchCancelled(BgB, k)
        /\ (\E k \in Kinds : task[BgB][k].status = "err") => egErr[BgB] # NoErr

\* The signal has arrived during a background build, a task of which has
\* returned context canceled after the pages it had fetched.
C15_Witness ==
    /\ shutdown
    /\ pc[BgB] = "fetch"
    /\ egErr[BgB].cause = "canceled"
    /\ \E k \in Kinds :
          task[BgB][k].status = "err" /\ task[BgB][k].st.requests >= 1

\* C16 as stated, the part about new builds: once the shutdown context is
\* cancelled the background loop starts no further build.
C16_NoBuildAfterCancel ==
    [][shutdown => ~(pc[BgB] = "idle" /\ pc'[BgB] = "fetch")]_vars

\* C16 as amended: the goroutine returns only once the shutdown context is
\* cancelled, and has no build running when it does; having returned it
\* starts nothing; a build the loop starts after the cancellation, on a tick
\* that was ready together with ctx.Done(), runs under a cancelled context;
\* and once the context is cancelled the goroutine returns in the end,
\* unless the process ends before.
C16_ReturnsOnlyOnShutdown ==
    /\ [][/\ bg' = "returned" => (shutdown' /\ pc'[BgB] = "idle")
          /\ bg = "returned" => bg' = "returned"
          /\ (shutdown /\ pc[BgB] = "idle" /\ pc'[BgB] = "fetch") =>
                 ctxErr'[BgB] = "canceled"]_vars
    /\ (shutdown /\ bg = "loop") ~> (bg = "returned" \/ ~Running)

\* The goroutine has returned after a build of its own failed under the
\* cancelled context.
C16_Witness ==
    /\ shutdown
    /\ bg = "returned"
    /\ Running
    /\ \E i \in 1..Len(failLog) : failLog[i].by = BgB

\* C17: a build whose 5-minute deadline elapses while a fetch task has not
\* completed fails: from then on its tasks obtain no page, the build ends
\* with the deadline's error, and nothing is allocated, stored or published
\* when it ends.
C17_DeadlineFailsBuild ==
    [][\A b \in Builders :
          (/\ pc[b] = "fetch"
           /\ ctxErr[b] = "deadline"
           /\ \E k \in Kinds : task[b][k].status # "ok") =>
              /\ \A k \in Kinds : task'[b][k].st = task[b][k].st
                                    \/ pc'[b] # "fetch"
              /\ \A k \in Kinds : task[b][k].status = "run" =>
                     (pc'[b] = "fetch" /\ task'[b][k].status \in {"run", "err"})
              /\ pc'[b] # "fetch" =>
                     /\ pc'[b] = "failed"
                     /\ egErr'[b].cause = "deadline"
                     /\ heap' = heap
                     /\ current' = current
                     /\ storeLog' = storeLog]_vars

\* A build has failed on its deadline while a snapshot is published.
C17_Witness ==
    \E b \in Builders :
        /\ pc[b] = "failed"
        /\ egErr[b].cause = "deadline"
        /\ current # NULL
        /\ failLog # <<>>

\* C18: Refresh callers are neither serialised nor coalesced: a Refresh
\* starts its build whatever the other builders are doing, every step of
\* its build and its Store are able to happen whatever the others are
\* doing, and the snapshot it stores is the one its own build returned.
C18_RefreshNotSerialised ==
    \A r \in Refreshers :
        /\ (Serving /\ pc[r] = "idle" /\ builds < MaxBuilds) => ENABLED Refresh(r)
        /\ (Running /\ pc[r] = "fetch") =>
               /\ \A k \in Kinds : task[r][k].status = "run" =>
                      ENABLED (FetchPage(r, k) \/ FetchCancelled(r, k))
               /\ (\A k \in Kinds : task[r][k].status # "run") => ENABLED BuildJoin(r)
        /\ pc[r] = "built" =>
               /\ Running => ENABLED RefreshStore(r)
               /\ built[result[r]].by = r
               /\ \A b \in Builders \ {r} : result[b] # result[r]

\* Two Refresh calls are building at once, one of them about to store while
\* the other is still fetching.
C18_Witness ==
    \E r1, r2 \in Refreshers :
        /\ r1 # r2
        /\ pc[r1] = "built"
        /\ pc[r2] = "fetch"
        /\ \E k \in Kinds : task[r2][k].st.requests >= 1

\* C19: the published pointer is written once for every build that returned
\* a snapshot and never for a failed one: the stores made and the snapshots
\* returned but not yet stored add up to the snapshots built, no snapshot
\* is stored twice, every build is in progress or has returned a snapshot
\* or an error, and the pointer is what the last Store of New, Refresh or
\* the background loop wrote.
C19_OneStorePerSuccessfulBuild ==
    /\ Len(storeLog) + Cardinality({b \in Builders : pc[b] = "built"}) = Len(built)
    /\ \A i, j \in 1..Len(storeLog) : i # j => storeLog[i] # storeLog[j]
    /\ \A i \in 1..Len(storeLog) : storeLog[i] \in 1..Len(built)
    /\ Len(built) + Len(failLog) + Cardinality({b \in Builders : pc[b] = "fetch"})
           = builds
    /\ current = IF storeLog = <<>> THEN NULL ELSE Last(storeLog)

\* New, a Refresh and the background loop have each stored a snapshot, or
\* two of them have and a build has failed.
C19_Witness ==
    /\ Len(storeLog) = 2
    /\ failLog # <<>>
    /\ builds = 3
    /\ \A b \in Builders : pc[b] = "idle"

\* C20: a write to the remote service, by a write tool or by anyone else,
\* carried out or refused, leaves the published pointer, every snapshot and
\* what a handler holds as they are; the published snapshot changes with
\* the Store of a later build only.
C20_WritesLeaveSnapshot ==
    [][Len(hist') > Len(hist) =>
          /\ current' = current
          /\ heap' = heap
          /\ storeLog' = storeLog
          /\ got' = got]_vars

\* A write tool has created a record of a kind, and the published snapshot
\* still holds the kind's records as they were before.
C20_Witness ==
    \E k \in Kinds :
        /\ remote[k] = [ver |-> 1, n |-> 2 * SizeStep + 1]
        /\ served
        /\ current # NULL
        /\ heap[current].data[k] # <<>>
        /\ \A i \in 1..Len(heap[current].data[k]) : heap[current].data[k][i].ver = 0

\* C21: a request reaches the MCP handler if and only if its Authorization
\* header is exactly "Bearer " followed by the configured key; a request
\* whose header is missing or does not begin with "Bearer " is answered 401,
\* one with the prefix and another token 403, and in both cases the handler
\* is not invoked.
C21_BearerGate ==
    \A i \in 1..Len(auth.log) :
        LET e == auth.log[i]
            header == IF e.values = <<>> THEN <<>> ELSE e.values[1]
            Prefixed == \E n \in 0..Len(header) :
                            header = Bearer \o SubSeq(header, Len(header) - n + 1,
                                                      Len(header))
        IN  /\ e.next <=> (e.values # <<>> /\ header = Bearer \o auth.key)
            /\ ~Prefixed => (e.status = StatusUnauthorized /\ ~e.next)
            /\ (Prefixed /\ header # Bearer \o auth.key) =>
                   (e.status = StatusForbidden /\ ~e.next)

\* The server has let one request through and has then refused with 403 a
\* token that begins with the key.
C21_Witness ==
    /\ Len(auth.log) = 2
    /\ auth.log[1].next
    /\ auth.log[2].status = StatusForbidden
    /\ HasPrefix(auth.log[2].values[1], Bearer \o auth.key)

\* C23: a build returns the error of the first fetch task to fail.  The
\* errgroup takes its error from the first task that returns one, which is
\* that task's own error wrapped with its kind's name, and keeps it until
\* the build returns; so when one kind's fetch fails on its own, the error
\* is that kind's, never the cancellation error of a sibling that was
\* cancelled as a consequence.
C23_FirstErrorReturned ==
    /\ [](\A b \in Builders : pc[b] = "fetch" =>
            /\ egErr[b] = NoErr <=> \A k \in Kinds : task[b][k].status # "err"
            /\ \A k \in Kinds :
                  task[b][k].err.cause = "remote" =>
                      egErr[b] = [kind |-> k, cause |-> "remote"])
    /\ [][\A b \in Builders :
            /\ (egErr[b] = NoErr /\ egErr'[b] # NoErr) =>
                  \E k \in Kinds : /\ task[b][k].status = "run"
                                   /\ task'[b][k].status = "err"
                                   /\ egErr'[b] = task'[b][k].err
                                   /\ egErr'[b].kind = k
            /\ (egErr[b] # NoErr /\ pc[b] = "fetch") =>
                  (egErr'[b] = egErr[b] /\ pc'[b] \in {"fetch", "failed"})]_vars

\* Every task of a build has returned: one failed on its own, a sibling was
\* cancelled for it, and the errgroup holds the error of the first.
C23_Witness ==
    \E b \in Builders : \E k, j \in Kinds :
        /\ pc[b] = "fetch"
        /\ \A i \in Kinds : task[b][i].status # "run"
        /\ task[b][k].err = [kind |-> k, cause |-> "remote"]
        /\ task[b][j].err = [kind |-> j, cause |-> "canceled"]
        /\ egErr[b] = task[b][k].err

C24_JoinBeforeAssembly ==
    [][\A b \in Builders :
          /\ (pc[b] # "fetch" /\ pc'[b] = "fetch") =>
                 \A k \in Kinds : task'[b][k] = taskStart
          /\ (pc[b] = "fetch" /\ pc'[b] = "fetch") =>
                 /\ Cardinality({k \in Kinds : task'[b][k] # task[b][k]}) <= 1
                 /\ \A k \in Kinds :
                       task'[b][k] # task[b][k] =>
                           /\ task[b][k].status = "run"
                           /\ \/ /\ task'[b][k].status = "err"
                                 /\ task'[b][k].st = task[b][k].st
                              \/ /\ task'[b][k].st =
                                        listAllIter(task[b][k].st, remote[k],
                                                    limitPerEntity)
                                 /\ task'[b][k].status =
                                        IF task'[b][k].st.done THEN "ok" ELSE "run"
                 /\ heap' = heap \/ \E c \in Builders \ {b} : pc'[c] = "built"
          /\ (pc[b] = "fetch" /\ pc'[b] # "fetch") =>
                 /\ \A k \in Kinds : task[b][k].status # "run"
                 /\ pc'[b] = "built" =>
                        /\ \A k \in Kinds : task[b][k].status = "ok"
                        /\ heap' = Append(heap,
                               Snapshot(now, [k \in Kinds |-> task[b][k].st.all]))
                        /\ result'[b] = Len(heap')]_vars

\* A build has returned a snapshot holding records of every kind, one kind
\* fetched in more than one page, while another build has one task done and
\* one still fetching.
C24_Witness ==
    \E b, c \in Builders :
        /\ pc[b] = "built"
        /\ \A k \in Kinds : heap[result[b]].data[k] # <<>>
        /\ \E k \in Kinds : Len(heap[result[b]].data[k]) > 1
        /\ pc[c] = "fetch"
        /\ \E k, j \in Kinds : task[c][k].status = "ok" /\ task[c][j].status = "run"

\* C25: once a build's context is done (a task of it failed, its deadline
\* elapsed or its caller's context was cancelled), no task of that build
\* obtains another page: the page request of a task still fetching cannot
\* succeed, the task's next step is to return the context's error wrapped
\* with its kind's name, keeping no page it had not already, and the context
\* stays done for as long as the build lasts.
C25_NoPageAfterCancel ==
    /\ [](\A b \in Builders : \A k \in Kinds :
            (Running /\ pc[b] = "fetch" /\ ctxErr[b] # "nil"
                     /\ task[b][k].status = "run") =>
                (~ENABLED FetchPage(b, k) /\ ENABLED FetchCancelled(b, k)))
    /\ [][\A b \in Builders :
            (pc[b] = "fetch" /\ ctxErr[b] # "nil" /\ pc'[b] = "fetch") =>
                /\ ctxErr'[b] = ctxErr[b]
                /\ \A k \in Kinds :
                      /\ task'[b][k].st = task[b][k].st
                      /\ task'[b][k] # task[b][k] =>
                             /\ task[b][k].status = "run"
                             /\ task'[b][k].status = "err"
                             /\ task'[b][k].err = [kind |-> k, cause |-> ctxErr[b]]]_vars

\* A task that had obtained a first page of several was stopped at its next
\* page request, the context of its build having been cancelled by the
\* failure of a sibling, by the deadline or by the shutdown.
C25_Witness ==
    \E b \in Builders : \E k \in Kinds :
        /\ pc[b] = "fetch"
        /\ ctxErr[b] # "nil"
        /\ task[b][k].status = "err"
        /\ task[b][k].err.cause = ctxErr[b]
        /\ task[b][k].st.requests = 1
        /\ ~task[b][k].st.done

\* C26: every snapshot Get can return (every snapshot that was stored) has
\* its GeneratedAt and its Markdown set, the Markdown carrying that very
\* stamp and the counts and sections of that snapshot's own collections; and
\* no step changes a field of a snapshot that has been stored: a stored
\* snapshot is the same in every later state.
C26_StoredSnapshotImmutable ==
    /\ [](\A p \in Published \cup ({got, current} \ {NULL}) :
            /\ p \in 1..Len(heap)
            /\ heap[p].GeneratedAt >= 1
            /\ heap[p].Markdown.generated = heap[p].GeneratedAt
            /\ \A k \in Kinds :
                  /\ heap[p].Markdown.sections[k] = heap[p].data[k]
                  /\ heap[p].Markdown.summary[k] = Count(heap[p].data[k]))
    /\ [][\A p \in Published :
            /\ Len(heap') >= Len(heap)
            /\ heap'[p] = heap[p]
            /\ p \in Range(storeLog')]_vars

\* A handler holds the first snapshot stored, which a later store has
\* replaced by a snapshot of other collections, while a build is fetching.
C26_Witness ==
    /\ Len(storeLog) >= 2
    /\ got = storeLog[1]
    /\ current = storeLog[2]
    /\ heap[current].data # heap[got].data
    /\ \E b \in Builders : pc[b] = "fetch"

C28_PageRequests ==
    /\ [](/\ \A i \in 1..Len(la.reqs) :
               LET acc == Count(SubSeq(la.st.all, 1, i - 1))
                   caller == IF la.opts = <<>> THEN ZeroListOptions ELSE la.opts[1]
               IN  /\ i - 1 <= Len(la.st.all)
                   /\ la.reqs[i].opts = [caller EXCEPT !.Limit = 100, !.Offset = acc]
                   /\ la.reqs[i].query.limit = <<100>>
                   /\ la.reqs[i].query.offset = IF acc = 0 THEN <<>> ELSE <<acc>>
                   /\ la.reqs[i].query.name =
                          IF caller.Name = "" THEN <<>> ELSE <<caller.Name>>
          /\ \A j \in 1..Len(la.st.all) :
               /\ la.st.all[j].off = QueryOffset(la.reqs[j].query)
               /\ la.st.all[j].off = Count(SubSeq(la.st.all, 1, j - 1))
          /\ la.st.offset = Count(la.st.all)
          /\ la.pc = "returned" => la.ret = la.st.all)
    /\ [][la'.opts = la.opts]_vars

\* A call given a limit and an offset of the caller's own has returned the
\* items of three pages.
C28_Witness ==
    /\ la.pc = "returned"
    /\ la.opts # <<>>
    /\ la.opts[1].Limit = 5
    /\ la.opts[1].Offset = 7
    /\ Len(la.reqs) = 3
    /\ Len(la.ret) = 3
    /\ la.reqs[3].opts.Offset = 2

\* C29 as stated: listPage returns an error exactly when the response's HTTP
\* status is outside 200..299 or its body cannot be decoded into the list
\* envelope.
C29_ErrorOnlyOnStatusOrBody ==
    cl.op = "listPage" =>
        (cl.ret.err # "nil" <=>
            /\ ~cl.resp.failed
            /\ \/ cl.resp.status < 200
               \/ cl.resp.status > 299
               \/ cl.resp.body.json = "invalid")

\* C29: listPage returns an error, and no items, exactly when no response
\* was obtained (the transport failed, the context was cancelled or timed
\* out, the body could not be read), or the response's status is outside
\* 200..299, or its body cannot be decoded into the list envelope; for
\* every 2xx response with a decodable body it returns the envelope's
\* results and total, which are none and 0 when the body holds no envelope.
C29_ListPageErrors ==
    cl.op = "listPage" =>
        /\ cl.ret.err # "nil" <=>
               \/ cl.resp.failed
               \/ cl.resp.status < 200
               \/ cl.resp.status > 299
               \/ cl.resp.body.json = "invalid"
        /\ cl.ret.err # "nil" => (cl.ret.items = <<>> /\ cl.ret.total = 0)
        /\ (cl.ret.err = "nil" /\ cl.resp.body.json = "list") =>
               /\ cl.ret.items = cl.resp.body.results
               /\ cl.ret.total = cl.resp.body.total
        /\ (cl.ret.err = "nil" /\ cl.resp.body.json # "list") =>
               (cl.ret.items = <<>> /\ cl.ret.total = 0)

\* A listPage call that obtained no response has returned an error and no
\* items.
C29_Witness ==
    /\ cl.op = "listPage"
    /\ cl.resp.failed
    /\ cl.ret.err = "execute"
    /\ cl.ret.items = <<>>
    /\ Query(cl.sent[1]).limit = <<5>>

\* C30: getOne makes one list call on the entity's path, with no query; it
\* returns a not-found error when the response holds no item and the first
\* item of the response otherwise, and the list call's error when that call
\* failed.
C30_GetOneFirstItem ==
    cl.op = "getOne" =>
        LET page == listPageHTTP(cl.resp)
        IN  /\ Len(cl.sent) = 1
            /\ Method(cl.sent[1]) = "GET"
            /\ Path(cl.sent[1]) = EntityPath
            /\ \A p \in {"limit", "offset", "name"} : Query(cl.sent[1])[p] = <<>>
            /\ page.err # "nil" => (cl.ret.err = page.err /\ cl.ret.items = <<>>)
            /\ (page.err = "nil" /\ Len(page.items) = 0) =>
                   (cl.ret.err = "no entity found" /\ cl.ret.items = <<>>)
            /\ (page.err = "nil" /\ Len(page.items) > 0) =>
                   (cl.ret.err = "nil" /\ cl.ret.items = <<page.items[1]>>)

\* A getOne call answered with two items has returned the first of them.
C30_Witness ==
    /\ cl.op = "getOne"
    /\ cl.resp.status = 200
    /\ cl.resp.body.results = <<7, 8>>
    /\ cl.ret.items = <<7>>
    /\ cl.ret.err = "nil"

\* C35: a request handler (search_docs, a resource) calls Get once and
\* calls nothing of the remote service: the snapshot it holds stays the
\* same until it returns, its steps leave the service, the builds and the
\* published snapshot as they are, and its answer is made of one stored
\* snapshot, text and counts alike, also when another snapshot was
\* published before it returned.  Get and the return are able to happen
\* whatever the builders are doing.
C35_OneSnapshotPerResponse ==
    /\ [](reply # NoReply =>
            /\ reply.snap \in Published
            /\ reply.text = heap[reply.snap].Markdown
            /\ \A k \in Kinds :
                  /\ reply.counts[k] = Count(heap[reply.snap].data[k])
                  /\ reply.counts[k] = reply.text.summary[k])
    /\ []((Serving /\ got = NULL) => ENABLED Get)
    /\ []((Running /\ got # NULL) => ENABLED HandlerReturns)
    /\ [][got # NULL => got' \in {got, NULL}]_vars
    /\ [][got' # got =>
            UNCHANGED <<remote, hist, pc, task, builds, current, heap, storeLog>>]_vars

\* A handler has answered from a snapshot that a later store had replaced,
\* by a snapshot of other collections, before it returned, and a build is
\* fetching.
C35_Witness ==
    /\ reply # NoReply
    /\ reply.latest # reply.snap
    /\ heap[reply.latest].data # heap[reply.snap].data
    /\ \E b \in Builders : pc[b] = "fetch"

\* C38: the background loop runs one build at a time: a build of the loop
\* starts only when the loop is at its select (its previous build has
\* returned and its result has been stored or logged), a tick cannot start
\* one while a build of the loop is under way, and the builds under way
\* together with a build of the loop are builds of Refresh calls, never the
\* initial build of New.
C38_BackgroundBuildsNeverOverlap ==
    /\ [](pc[BgB] # "idle" =>
            /\ ~ENABLED BgTick
            /\ pc[InitB] = "idle"
            /\ \A b \in Builders \ {BgB} : pc[b] # "idle" => b \in Refreshers)
    /\ [][(builds' # builds /\ \A b \in Builders \ {BgB} : pc'[b] = pc[b]) =>
            (pc[BgB] = "idle" /\ bg = "loop" /\ pc'[BgB] = "fetch")]_vars

\* A build of the loop and the build of a Refresh call are fetching at the
\* same time, each with a page of its own already fetched.
C38_Witness ==
    /\ pc[BgB] = "fetch"
    /\ \E k \in Kinds : task[BgB][k].st.all # <<>>
    /\ \E r \in Refreshers :
          pc[r] = "fetch" /\ \E k \in Kinds : task[r][k].st.all # <<>>

\* The cleaned text of a truncate call: what truncate returns for the same
\* text under a cap the text cannot reach.
Marker == "..."
IsSpace(r) == r \in WhiteSpace
CleanOf(s) == truncate(s, Len(s) + 1)

\* C32: truncate(s, max) returns the cleaned text unchanged when it has at
\* most max code points, and otherwise its first max code points followed
\* by one truncation marker; the result has at most max + 1 code points and
\* holds no part of a multi-byte character.
C32_TruncateCutsAtCodePoints ==
    tr.op = "truncate" =>
        LET clean == CleanOf(tr.s)
        IN  /\ Len(clean) <= tr.max => tr.out = clean
            /\ Len(clean) > tr.max =>
                  /\ Len(tr.out) = tr.max + 1
                  /\ SubSeq(tr.out, 1, tr.max) = SubSeq(clean, 1, tr.max)
                  /\ tr.out[tr.max + 1] = Marker
            /\ Len(tr.out) <= tr.max + 1
            /\ \A i \in 1..Len(tr.out) : tr.out[i] # PartialRune
            /\ \A i \in 1..Len(clean) : clean[i] \notin {Marker, PartialRune}

\* A cleaned text of three code points and four bytes was cut to two code
\* points, the second one a two-byte character, and the marker.
C32_Witness ==
    /\ tr.op = "truncate"
    /\ tr.max = 2
    /\ tr.out = <<"a", "e'", Marker>>
    /\ Len(CleanOf(tr.s)) = 3

\* C40: the result of truncate holds no '<' and no '>', no two white-space
\* characters in a row and none at its start, whatever the brackets of the
\* input: unbalanced, unclosed or nested.
C40_NoMarkupNoSpaceRuns ==
    tr.op = "truncate" =>
        /\ \A i \in 1..Len(tr.out) : tr.out[i] \notin {"<", ">"}
        /\ \A i \in 1..(Len(tr.out) - 1) : ~(IsSpace(tr.out[i]) /\ IsSpace(tr.out[i + 1]))
        /\ tr.out # <<>> => ~IsSpace(tr.out[1])

\* A text with a nested tag, a '>' outside any tag and an unclosed tag at
\* its end, with several white-space characters in a row, was cleaned.
C40_Witness ==
    /\ tr.op = "truncate"
    /\ tr.s = <<"a", "\t", "\r", "\n", "b", ">", ">", "c", "e'", "d">>
    /\ tr.out = <<"a", " ", "b", Marker>>

\* The value a rendered attribute line carries after its label, and whether
\* it is the n-rune value of the call cut at cap.
RenderedValue == IF tr.out = <<>> THEN <<>> ELSE Tail(tr.out[1])
CutAt(cap) ==
    RenderedValue = IF tr.n <= cap THEN PlainValue(tr.n)
                    ELSE PlainValue(cap) \o <<Marker>>

\* C31 as stated: every attribute the renderer truncates is capped at 300
\* code points, the content of a KB article at 500, and no attribute has
\* another cap.
C31_CapIs300Or500 ==
    tr.op = "attribute" =>
        IF tr.kind = "kb" THEN CutAt(500) ELSE CutAt(300)

\* C31 as amended: the renderer caps the content of a KB article at 500
\* code points, the description of an agreement and the notes of an IP
\* network at 200, and every other attribute it truncates at 300; markup
\* does not count, and a value within its cap is rendered whole.
C31_CapPerAttribute ==
    tr.op = "attribute" =>
        /\ Len(tr.out) = IF tr.n = 0 THEN 0 ELSE 1
        /\ tr.n > 0 => tr.out[1][1] = attributeLabel(tr.kind, tr.attr)
        /\ IF tr.kind = "kb" THEN CutAt(500)
           ELSE IF tr.kind \in {"agreement", "ipnetwork"} THEN CutAt(200)
           ELSE CutAt(300)

\* The description of an agreement, 201 code points inside a tag pair, was
\* rendered as its first 200 code points and the marker.
C31_Witness ==
    /\ tr.op = "attribute"
    /\ tr.kind = "agreement"
    /\ tr.n = 201
    /\ Len(tr.s) > tr.n
    /\ RenderedValue = PlainValue(200) \o <<Marker>>

\* The section headings of a rendered text, in order, and the kinds whose
\* section a text of the collections s must hold.
IsHeading(line) == Len(line) >= 2 /\ line[1] = "## "
Headings(markdown) == SelectSeq(markdown, IsHeading)
HeadingOf(kind, s) ==
    <<"## ", sectionTitle(kind), " (">> \o Itoa(Len(s[kind])) \o <<")">>
WrittenKinds(s) ==
    LET written(kind) == kind \in UnguardedKinds \/ s[kind] # <<>>
    IN  SelectSeq(EntityKinds, written)

\* C33 as stated: the rendered text of every snapshot holds twelve sections,
\* one per entity kind in the fixed order, also for a kind whose collection
\* is empty.
C33_TwelveSections ==
    doc.op # "none" =>
        Headings(doc.markdown) =
            [i \in 1..Len(EntityKinds) |-> HeadingOf(EntityKinds[i], doc.s)]

\* C33 as amended: the rendered text holds, in the fixed order of the twelve
\* kinds, the sections of companies, sites, devices, KB articles and
\* contacts whatever their collections, and the section of each of the other
\* seven kinds exactly when its collection has an item; each heading carries
\* the count of its collection.
C33_SectionsOfNonEmptyKinds ==
    doc.op # "none" =>
        LET kinds == WrittenKinds(doc.s)
        IN  /\ Headings(doc.markdown) =
                   [i \in 1..Len(kinds) |-> HeadingOf(kinds[i], doc.s)]
            /\ \A k \in UnguardedKinds : \E i \in 1..Len(kinds) : kinds[i] = k

\* A snapshot with accounts, with neither companies nor agreements, was
\* rendered: it has the section of the companies, with the count 0, and the
\* section of the accounts, and none of the agreements.
C33_Witness ==
    /\ doc.op = "built"
    /\ doc.s["company"] = <<>>
    /\ doc.s["agreement"] = <<>>
    /\ doc.s["account"] # <<>>
    /\ \E i \in 1..Len(doc.markdown) : doc.markdown[i] = HeadingOf("company", doc.s)
    /\ \E i \in 1..Len(doc.markdown) : doc.markdown[i] = HeadingOf("account", doc.s)
    /\ \A i \in 1..Len(doc.markdown) : doc.markdown[i] # HeadingOf("agreement", doc.s)

\* The lines of the section of a rendered text under the heading title
\* (none when the text has no such section), and the lines of the snapshot
\* that an answer of search_docs returns.
SectionOf(markdown, title) ==
    LET at == {i \in 1..Len(markdown) :
                  IsHeading(markdown[i]) /\ markdown[i][2] = title}
    IN  IF at = {} THEN {}
        ELSE LET first == CHOOSE i \in at : \A j \in at : i <= j
                 later == {j \in (first + 1)..Len(markdown) : IsHeading(markdown[j])}
                 last == IF later = {} THEN Len(markdown)
                         ELSE (CHOOSE j \in later : \A m \in later : j <= m) - 1
             IN  {markdown[i] : i \in first..last}
ReturnedLines(out) ==
    IF out[1][1] = "Found "
    THEN {out[i] : i \in 3..Len(out)} \ {<<>>, <<"---">>}
    ELSE {}

\* C34: with an entity_type that sectionHeader knows, search_docs returns
\* only lines of that kind's section of the snapshot text and never a line
\* of another kind's section, also when the snapshot has no item of the
\* kind.
C34_SearchStaysInSection ==
    (doc.op = "searched" /\ sectionHeader(doc.entityType) # "") =>
        ReturnedLines(doc.out) \subseteq
            SectionOf(doc.markdown, sectionHeader(doc.entityType))

\* The same for the kinds whose section the text holds.
SearchStaysInWrittenSection ==
    (doc.op = "searched" /\ sectionHeader(doc.entityType) # ""
        /\ SectionOf(doc.markdown, sectionHeader(doc.entityType)) # {}) =>
        /\ ReturnedLines(doc.out) \subseteq
              SectionOf(doc.markdown, sectionHeader(doc.entityType))
        /\ (doc.query = <<"x">> /\ \E k \in KindSet :
                sectionTitle(k) = sectionHeader(doc.entityType) /\ doc.s[k] # <<>>)
              => ReturnedLines(doc.out) # {}

\* The sub-resource calls a create_device input asks for, in the order IP,
\* management URL, initial note.
RequestedSubSteps(input) ==
    LET asked(method, value) == IF value # "" THEN <<<<method, value>>>> ELSE <<>>
    IN  asked("AddDeviceIP", input.IPAddress)
        \o asked("AddDeviceManagementURL", input.ManagementURL)
        \o asked("AddDeviceNote", input.InitialNote)

ValidDeviceInput(input) == input.CompanyID # 0 /\ input.Name # ""

\* C36: create_device with a valid input calls CreateDevice first.  When
\* that call fails the tool returns the error and makes no other call.
\* When it succeeds, the IP, the management URL and the initial note are
\* attempted in that order, each exactly when its input is not empty,
\* whichever of them fail, and the tool answers a success text of the
\* device's line followed by one line per attempted sub-step.
C36_CreateDeviceOrder ==
    (tc.op = "create_device" /\ ValidDeviceInput(tc.input)) =>
        LET want == RequestedSubSteps(tc.input)
        IN  IF "CreateDevice" \in tc.fails
            THEN /\ Methods(tc.sent) = <<"CreateDevice">>
                 /\ tc.result[1] = "error"
            ELSE /\ Methods(tc.sent)
                      = <<"CreateDevice">> \o [i \in 1..Len(want) |-> want[i][1]]
                 /\ tc.result[1] = "text"
                 /\ Len(tc.result[2]) = 1 + Len(want)
                 /\ tc.result[2][1] = "Device created successfully."
                 /\ \A i \in 1..Len(want) :
                        tc.result[2][i + 1] \in
                            (IF want[i][1] \in tc.fails
                             THEN {"Could not add IP", "Could not add management URL",
                                   "Could not add note"}
                             ELSE {"IP added", "Management URL added",
                                   "Initial note added"})

\* A create_device that asked for all three sub-steps, whose first sub-step
\* failed and whose later ones were made and succeeded.
C36_Witness ==
    /\ tc.op = "create_device"
    /\ tc.fails = {"AddDeviceIP"}
    /\ Methods(tc.sent) = <<"CreateDevice", "AddDeviceIP",
                            "AddDeviceManagementURL", "AddDeviceNote">>
    /\ tc.result = toolText(<<"Device created successfully.", "Could not add IP",
                              "Management URL added", "Initial note added">>)

\* The inputs of a write tool that the tool is to refuse.
InvalidWriteInput ==
    CASE tc.op \in {"create_kb_article", "create_device"} ->
            tc.input.CompanyID = 0 \/ tc.input.Name = ""
      [] tc.op = "create_entity" ->
            tc.input.EntityType = <<>> \/ tc.input.Fields = <<>>
      [] tc.op = "update_entity" ->
            \/ tc.input.ID = ""
            \/ tc.input.Fields = <<>>
            \/ normalizeType(tc.input.EntityType) \notin updateTypes
      [] tc.op = "add_device_ip" -> tc.input.DeviceID = "" \/ tc.input.IP = ""
      [] tc.op = "add_device_note" -> tc.input.DeviceID = "" \/ tc.input.Notes = ""
      [] tc.op = "upload_file" ->
            \/ tc.input.EntityID = ""
            \/ tc.input.FileName = ""
            \/ tc.input.Base64Data = <<>>
            \/ /\ ~DecodeString(StdAlphabet, tc.input.Base64Data)[1]
               /\ ~DecodeString(URLAlphabet, tc.input.Base64Data)[1]
            \/ uploadPathOf(normalizeType(tc.input.EntityType)) = ""
      [] OTHER -> FALSE

\* C37: a write tool called with a missing or invalid required input
\* answers an error result and has made no call of the client.
C37_WriteToolsValidateFirst ==
    InvalidWriteInput => (tc.sent = NoCalls /\ tc.result[1] = "toolError")

\* update_entity with an id and a known type but no fields was refused
\* without a call.
C37_Witness ==
    /\ tc.op = "update_entity"
    /\ tc.input.ID # ""
    /\ normalizeType(tc.input.EntityType) \in updateTypes
    /\ tc.input.Fields = <<>>
    /\ tc.sent = NoCalls
    /\ tc.result = toolError("fields must not be empty")

\* The limit the tool is to work with for a requested limit.
ExpectedLimit(limit) ==
    IF limit <= 0 THEN defaultLimit ELSE IF limit > maxLimit THEN maxLimit ELSE limit

\* C39: every request list_entities sends carries the requested limit
\* brought into 1..500 (50 for 0 or less, 500 for more than 500), and the
\* result echoes that limit.
C39_LimitSentAndEchoed ==
    tc.op = "list_entities" =>
        LET want == ExpectedLimit(tc.input.Limit)
        IN  /\ want \in 1..maxLimit
            /\ \A i \in 1..Len(tc.sent) : tc.sent[i][2].limit = <<want>>
            /\ tc.result[1] = "text" => tc.result[2].Limit = want

\* The entity types whose list call is handed the options of the handler
\* send the limit brought into 1..500 and echo it.
PagedListsSendTheLimit ==
    (tc.op = "list_entities"
     /\ normalizeType(tc.input.EntityType) \in pagedListTypes) =>
        LET want == ExpectedLimit(tc.input.Limit)
        IN  /\ Len(tc.sent) = 1
            /\ tc.sent[1][2].limit = <<want>>
            /\ tc.result[1] = "text" => tc.result[2].Limit = want

====
